---------------------------- MODULE Spec2Model ----------------------------
(***************************************************************************)
(* The event pipeline of internal/ai/python: NexusStreamClient             *)
(* (bus/nexus_stream.py), EventBatcher (orchestrator/batcher.py),          *)
(* FallbackHandler (orchestrator/fallback.py), PatternOrchestrator         *)
(* (orchestrator/__init__.py), Optimizer (cognition/optimizer.py) and     *)
(* CognitiveManager (cognition/manager.py).                                *)
(* Each component has its own variables, actions and specification; a      *)
(* specification leaves the variables of the other components at their     *)
(* initial values.                                                         *)
(*                                                                         *)
(* NexusStreamClient (internal/ai/python/bus/nexus_stream.py): one         *)
(* subscription of a client.  A producer thread iterates the gRPC          *)
(* SubscribeEvents stream and puts every event into a bounded              *)
(* queue.Queue; num_workers worker threads get events from the queue, run  *)
(* the on_event handler and call task_done; stop() sets the stop flag and  *)
(* joins the queue.                                                        *)
(*                                                                         *)
(* queue.Queue is modelled by what CPython's implementation does under its *)
(* mutex: put(item, timeout) appends and increments unfinished_tasks when  *)
(* there is room, waits while the queue is full and raises Full only when  *)
(* the queue is still full as the timeout expires; get(timeout) pops the   *)
(* head, and raises Empty only when the queue is still empty as the        *)
(* timeout expires; task_done decrements unfinished_tasks; join returns    *)
(* when unfinished_tasks is 0.                                             *)
(*                                                                         *)
(* Events are the integers 1..NumEvents, in the order the stream yields    *)
(* them.  live_event_stream starts the same producer and worker loops      *)
(* (same queue calls, same flag checks), so the thread actions below stand *)
(* for both, with one step more in its producer: with privacy == "dp" the  *)
(* event is perturbed between the flag test and the put, and an exception  *)
(* of that step ends the producer thread.                                  *)
(***************************************************************************)
EXTENDS Integers, Sequences, FiniteSets

\* Model bounds.  MaxSize scales queue.Queue(maxsize=1000) down.
NumEvents == 4
MaxSize == 2
MaxWorkers == 2

Events == 1..NumEvents
Workers == 1..MaxWorkers

VARIABLES
    subscribed,   \* subscribe_events or live_event_stream has been called
    numWorkers,   \* its num_workers argument
    onEvent,      \* its on_event argument is a callable (not None)
    qualityCb,    \* the call was live_event_stream with a callable as
                  \* its quality_cb argument
    privacyDp,    \* the call was live_event_stream with privacy == "dp"
    stopEvent,    \* self._stop_event
    queue,        \* self._event_queue: the buffered items, head first
    unfinished,   \* self._event_queue.unfinished_tasks
    nextEv,       \* the next event the SubscribeEvents stream yields
    prodPc,       \* producer thread: none, recv, check, put, wait, done, failed
    prodEv,       \* the event the producer holds (0: none)
    workerPc,     \* worker thread: none, check, get, handle, task_done,
                  \* caught, unwind, exit, dead
    workerEv,     \* the event a worker holds (0: none)
    stopPc,       \* caller of stop(): idle, join, returned
    enqueued,     \* history: events whose put succeeded
    dropped,      \* history: events whose put raised queue.Full
    waited,       \* history: events whose put found the queue full
    handled,      \* history: event -> number of on_event invocations
    raised,       \* history: a call of on_event or quality_cb has raised an
                  \* exception that the except clause of its worker caught
    privacyRaised,
                  \* history: events on which the privacy step raised
    doneCount,    \* history: event -> number of task_done calls
    enqAtStop     \* history: enqueued, as stop() set the flag

streamVars ==
    <<subscribed, numWorkers, onEvent, qualityCb, privacyDp, stopEvent,
      queue, unfinished, nextEv, prodPc, prodEv, workerPc, workerEv, stopPc,
      enqueued, dropped, waited, handled, raised, privacyRaised, doneCount,
      enqAtStop>>

\* The arguments of the subscribe_events or live_event_stream call.
callArgs == <<numWorkers, onEvent, qualityCb, privacyDp>>
prodVars == <<nextEv, prodPc, prodEv>>
workerVars == <<workerPc, workerEv>>
histVars ==
    <<enqueued, dropped, waited, handled, raised, privacyRaised, doneCount,
      enqAtStop>>

-----------------------------------------------------------------------------
(***************************************************************************)
(* Repeated subscribe_events / stop calls on one client.  Every            *)
(* subscribe_events call starts a new producer thread and new worker       *)
(* threads on the same queue and the same stop flag; the threads of call g *)
(* are indexed by g.  Events are counted, not told apart.                  *)
(***************************************************************************)
\* Model bounds of the repeated-subscription model.
MaxSubs == 2
RsMaxWorkers == 1
RsNumEvents == 3

Subs == 1..MaxSubs
RsWorkers == 1..RsMaxWorkers

VARIABLES
    rsGen,        \* number of subscribe_events calls so far
    rsN,          \* num_workers of the latest call
    rsStop,       \* self._stop_event
    rsLen,        \* self._event_queue.qsize()
    rsUnfinished, \* self._event_queue.unfinished_tasks
    rsLeft,       \* events the bus will still deliver
    rsProd,       \* producer thread of call g: none, recv, check, put,
                  \* wait, done, failed
    rsWork,       \* worker thread i of call g: none, check, get, handle,
                  \* task_done, unwind, exit, dead
    rsStopPc      \* caller of stop(): idle, join, returned

resubVars == <<rsGen, rsN, rsStop, rsLen, rsUnfinished, rsLeft, rsProd, rsWork,
               rsStopPc>>

\* NexusStreamClient.__init__, for the repeated-subscription model.
ResubInit ==
    /\ rsGen = 0
    /\ rsN = 0
    /\ rsStop = FALSE
    /\ rsLen = 0
    /\ rsUnfinished = 0
    /\ rsLeft = RsNumEvents
    /\ rsProd = [g \in Subs |-> "none"]
    /\ rsWork = [g \in Subs |-> [i \in RsWorkers |-> "none"]]
    /\ rsStopPc = "idle"

-----------------------------------------------------------------------------
(***************************************************************************)
(* EventBatcher (internal/ai/python/orchestrator/batcher.py): a buffer     *)
(* filled by add_event from any number of threads, flushed to the batch    *)
(* handler by the add that fills it, by the timer thread _run, and by      *)
(* stop().  Items are numbered in the order the add_event calls start.     *)
(* Time is counted in ticks; an elapsed time is kept up to batch_interval, *)
(* above which the code does not distinguish it.                           *)
(***************************************************************************)

\* Bounds of the exploration.
MaxItems == 3
MaxAdders == 2
MaxBatch == 2
\* batch_interval (default of __init__), in ticks of one second.
Interval == 2

Adders == 1..MaxAdders
Items == 1..MaxItems

VARIABLES
    batchSize,     \* self._batch_size
    numAdders,     \* number of threads calling add_event
    onBatch,       \* self._on_batch is a callable (not None)
    events,        \* self._events
    lock,          \* holder of self._lock: "none", "add", "timer", "stop"
    batchStop,     \* self._stop_event
    lastFlushAge,  \* time.time() - self._last_flush, up to Interval
    sleepLeft,     \* ticks left of the timer's time.sleep
    nowAge,        \* time.time() - now for the timer's sample, up to Interval
    nextItem,      \* number of the next add_event call
    addPc,         \* per adder: "idle", "acquire", "check", "handler"
    addItem,       \* per adder: the event of its current call (0: none)
    timerPc,       \* "loop", "sleep", "acquire", "handler", "done", "dead"
    bstopPc,       \* stop(): "idle", "join", "acquire", "handler",
                   \* "returned", "raised"
    appended,      \* history: the events in the order they were appended
    delivered,     \* history: the batches in the order they were handed over
    addedAtStop    \* history: the events appended when stop() was called

batcherVars ==
    <<batchSize, numAdders, onBatch, events, lock, batchStop, lastFlushAge,
      sleepLeft, nowAge, nextItem, addPc, addItem, timerPc, bstopPc,
      appended, delivered, addedAtStop>>

\* EventBatcher.__init__ with batch_size = b, used by n adding threads; the
\* timer thread is started and about to test the stop event.
BatcherInit(b, n) ==
    /\ batchSize = b
    /\ numAdders = n
    /\ onBatch = TRUE
    /\ events = <<>>
    /\ lock = "none"
    /\ batchStop = FALSE
    /\ lastFlushAge = 0
    /\ sleepLeft = 0
    /\ nowAge = 0
    /\ nextItem = 1
    /\ addPc = [a \in Adders |-> "idle"]
    /\ addItem = [a \in Adders |-> 0]
    /\ timerPc = "loop"
    /\ bstopPc = "idle"
    /\ appended = <<>>
    /\ delivered = <<>>
    /\ addedAtStop = {}

BatcherParked == BatcherInit(1, 1)

-----------------------------------------------------------------------------
(***************************************************************************)
(* FallbackHandler (internal/ai/python/orchestrator/fallback.py): calls of *)
(* run_with_fallback from several threads on one handler.  Every attempt   *)
(* of the operation returns, raises an exception derived from Exception,   *)
(* or raises one that is not (KeyboardInterrupt, SystemExit,               *)
(* GeneratorExit).  max_retries is any integer from -1 on and              *)
(* backoff_factor any factor from 1 on: __init__ checks neither.           *)
(***************************************************************************)

\* Bounds of the exploration.
MaxRetryLimit == 3
MaxCallers == 2
MaxCalls == 2
OtherFactor == 3
\* backoff_factor (default of __init__) and the first delay.
BackoffFactor == 2
FirstDelay == 1

\* The values of backoff_factor explored: the default and another one.
Factors == {BackoffFactor, OtherFactor}

Callers == 1..MaxCallers

VARIABLES
    maxRetries,    \* self._max_retries
    hasHook,       \* self._on_fallback is set
    backoffFactor, \* self._backoff_factor
    failureCount,  \* self._failure_count
    circuitOpen,   \* self._circuit_open
    fbCalls,       \* number of run_with_fallback calls started
    fbPc,          \* per caller: "idle", "try", "hook", "sleep",
                   \* "returned", "raised", "aborted", "hookraised"
    withFallback,  \* the callers pass fallback_value = v in their calls
    retries,       \* per caller: local retries
    delay,         \* per caller: local delay
    attempts,      \* history, per caller: invocations of the operation
    slept,         \* history, per caller: total time slept
    hookCalls      \* history, per caller: invocations of on_fallback

fallbackVars == <<maxRetries, hasHook, backoffFactor, failureCount,
                  circuitOpen, fbCalls, fbPc, withFallback, retries, delay,
                  attempts, slept, hookCalls>>

\* FallbackHandler.__init__ with max_retries = r, backoff_factor = b and
\* on_fallback set or not.
FallbackInit(r, b, h) ==
    /\ maxRetries = r
    /\ backoffFactor = b
    /\ hasHook = h
    /\ failureCount = 0
    /\ circuitOpen = FALSE
    /\ fbCalls = 0
    /\ fbPc = [c \in Callers |-> "idle"]
    /\ retries = [c \in Callers |-> 0]
    /\ delay = [c \in Callers |-> FirstDelay]
    /\ attempts = [c \in Callers |-> 0]
    /\ slept = [c \in Callers |-> 0]
    /\ hookCalls = [c \in Callers |-> 0]

FallbackParked ==
    FallbackInit(0, BackoffFactor, FALSE) /\ withFallback = FALSE
-----------------------------------------------------------------------------
(***************************************************************************)
(* PatternOrchestrator (internal/ai/python/orchestrator/__init__.py):      *)
(* calls of monitor_patterns, one after the other, on one orchestrator.    *)
(* A write to the DB (db.batch_insert_metadata) either returns or raises.  *)
(***************************************************************************)

\* Bounds of the exploration: records per stream, calls of monitor_patterns.
MaxStream == 3
MaxMonitorCalls == 2

\* The pattern records fed: dicts that differ in their 'anomaly' entry.
Records == [anomaly : BOOLEAN]

VARIABLES
    orPc,           \* "idle", "loop", "save", "orch", "orchsave", "done",
                    \* "raised"
    orLeft,         \* records of pattern_stream not yet taken by the loop
    orCur,          \* pattern, the loop variable
    patterns,       \* self.patterns
    monitorCalls,   \* number of monitor_patterns calls started
    fed,            \* history, per record: times the loop has taken it
    newSaves,       \* history, per record: DB writes of line 33
    orchSaves,      \* history, per record: DB writes of orchestrate
    failedWrites,   \* history, per record: DB writes that raised
    kpiLogged,      \* history, per record: monitor.log_kpi calls
    debits,         \* history, per record: spend_tokens(amount=1.0) calls
    optimizeRuns    \* history: optimizer.optimize calls

orchVars == <<orPc, orLeft, orCur, patterns, monitorCalls, fed, newSaves,
              orchSaves, failedWrites, kpiLogged, debits, optimizeRuns>>

NoRecord == [anomaly |-> FALSE]

\* PatternOrchestrator.__init__
OrchInit ==
    /\ orPc = "idle"
    /\ orLeft = 0
    /\ orCur = NoRecord
    /\ patterns = <<>>
    /\ monitorCalls = 0
    /\ fed = [r \in Records |-> 0]
    /\ newSaves = [r \in Records |-> 0]
    /\ orchSaves = [r \in Records |-> 0]
    /\ failedWrites = [r \in Records |-> 0]
    /\ kpiLogged = [r \in Records |-> 0]
    /\ debits = [r \in Records |-> 0]
    /\ optimizeRuns = 0
-----------------------------------------------------------------------------
(***************************************************************************)
(* Optimizer.optimize (internal/ai/python/cognition/optimizer.py): a pure  *)
(* function of the campaigns and the KPI history, applied once to inputs   *)
(* drawn from bounded sets.                                                *)
(***************************************************************************)

\* Bound of the exploration: length of a campaign's list of actions.
MaxActions == 2

CampaignIds == {"c1", "c2"}
ActionNames == {"x", "y"}
Scores == {0, 1}

\* Lists of at most n actions.
ActionLists(n) == UNION {[1..k -> ActionNames] : k \in 0..n}

\* A campaign: its 'actions' and 'variants' entries.  A missing entry and an
\* empty list are both falsy in `campaign.get("actions") or
\* campaign.get("variants") or []` and are both the empty list here.
CampaignValues == [actions : ActionLists(MaxActions), variants : ActionLists(1)]

\* The KPI entry of a campaign: scores of some of the actions.
ScoreMaps == UNION {[D -> Scores] : D \in SUBSET ActionNames}

VARIABLES
    campaigns,    \* argument campaigns: campaign id -> campaign
    kpis,         \* argument kpis: campaign id -> action -> score
    optDone,      \* optimize has returned
    optimized     \* the dict returned, as a set of <<campaign id, action>>

optVars == <<campaigns, kpis, optDone, optimized>>

\* optimize called with campaigns cs and kpis ks.
OptInit(cs, ks) ==
    /\ campaigns = cs
    /\ kpis = ks
    /\ optDone = FALSE
    /\ optimized = {}

NoCampaign == [actions |-> <<>>, variants |-> <<>>]
NoScores == [a \in {} |-> 0]

\* optimize({}, {}) not yet called.
OptParked == OptInit([c \in {} |-> NoCampaign], [c \in {} |-> NoScores])
-----------------------------------------------------------------------------
(***************************************************************************)
(* CognitiveManager (internal/ai/python/cognition/manager.py): calls of    *)
(* register_campaign and spend_tokens on one manager, with budgets and     *)
(* amounts that are not negative.                                          *)
(***************************************************************************)

\* Bounds of the exploration: the largest budget and the largest amount.
MaxBudget == 2
MaxAmount == 2

MgrIds == {"c1", "c2"}

VARIABLES
    mgrCampaigns,  \* self.campaigns: campaign id -> budget and tokens_used
    mgrLast        \* history: the last call, its arguments and its result

mgrVars == <<mgrCampaigns, mgrLast>>

NoCall == [op |-> "none", id |-> "c1", amount |-> 0, result |-> FALSE]

\* CognitiveManager.__init__
MgrInit ==
    /\ mgrCampaigns = [c \in {} |-> [budget |-> 0, tokens_used |-> 0]]
    /\ mgrLast = NoCall
-----------------------------------------------------------------------------
(***************************************************************************)
(* EventBatcher, the clock of its flushes: add_event, the timer thread,    *)
(* stop() and set_on_batch with the time that has passed since the last    *)
(* flush of any kind.  The steps are those of the batcher above; the       *)
(* buffer is its length, one caller adds events, and the ages stop         *)
(* counting at the interval.                                               *)
(***************************************************************************)

\* Bound of the exploration: the largest batch_size.
FcMaxBatch == 3

VARIABLES
    fcBatch,     \* self._batch_size
    fcOnBatch,   \* self._on_batch is a callable (not None)
    fcLen,       \* len(self._events)
    fcLock,      \* holder of self._lock: "none", "add", "timer", "stop"
    fcStop,      \* self._stop_event is set
    fcPc,        \* timer thread: "loop", "sleep", "acquire", "handler",
                 \* "done", "dead"
    fcAddPc,     \* add_event: "idle", "check", "handler"
    fcStopPc,    \* stop(): "idle", "join", "acquire", "handler",
                 \* "returned", "raised"
    fcSleep,     \* time left of time.sleep(self._batch_interval)
    fcNowAge,    \* time since _run took now = time.time(), while its
                 \* handler runs; at most Interval
    fcLastAge,   \* time since self._last_flush, at most Interval
    fcAnyAge,    \* history: time since the last flush of any kind (since
                 \* construction before the first), at most Interval
    fcLastBy     \* history: "none", or who flushed last: "add", "timer",
                 \* "stop"

fcVars ==
    <<fcBatch, fcOnBatch, fcLen, fcLock, fcStop, fcPc, fcAddPc, fcStopPc,
      fcSleep, fcNowAge, fcLastAge, fcAnyAge, fcLastBy>>

\* EventBatcher.__init__ with batch_size = b: a handler is always set
\* (on_batch or self._default_on_batch), _last_flush = time.time(), and the
\* timer thread starts.
FcInit(b) ==
    /\ fcBatch = b
    /\ fcOnBatch = TRUE
    /\ fcLen = 0
    /\ fcLock = "none"
    /\ fcStop = FALSE
    /\ fcPc = "loop"
    /\ fcAddPc = "idle"
    /\ fcStopPc = "idle"
    /\ fcSleep = 0
    /\ fcNowAge = 0
    /\ fcLastAge = 0
    /\ fcAnyAge = 0
    /\ fcLastBy = "none"

FcParked == FcInit(1)

-----------------------------------------------------------------------------
\* All variables, and for each component the variables of the others.
vars ==
    <<streamVars, resubVars, batcherVars, fallbackVars,
      orchVars, optVars, mgrVars, fcVars>>
nonStreamVars ==
    <<resubVars, batcherVars, fallbackVars, orchVars,
      optVars, mgrVars, fcVars>>
nonResubVars ==
    <<streamVars, batcherVars, fallbackVars, orchVars,
      optVars, mgrVars, fcVars>>
nonBatcherVars ==
    <<streamVars, resubVars, fallbackVars, orchVars,
      optVars, mgrVars, fcVars>>
nonFallbackVars ==
    <<streamVars, resubVars, batcherVars, orchVars,
      optVars, mgrVars, fcVars>>
nonOrchVars ==
    <<streamVars, resubVars, batcherVars, fallbackVars,
      optVars, mgrVars, fcVars>>
nonOptVars ==
    <<streamVars, resubVars, batcherVars, fallbackVars,
      orchVars, mgrVars, fcVars>>
nonMgrVars ==
    <<streamVars, resubVars, batcherVars, fallbackVars,
      orchVars, optVars, fcVars>>
nonFcVars ==
    <<streamVars, resubVars, batcherVars, fallbackVars,
      orchVars, optVars, mgrVars>>

\* NexusStreamClient.__init__
StreamInit ==
    /\ subscribed = FALSE
    /\ numWorkers = 0
    /\ onEvent = FALSE
    /\ qualityCb = FALSE
    /\ privacyDp = FALSE
    /\ stopEvent = FALSE
    /\ queue = <<>>
    /\ unfinished = 0
    /\ nextEv = 1
    /\ prodPc = "none"
    /\ prodEv = 0
    /\ workerPc = [w \in Workers |-> "none"]
    /\ workerEv = [w \in Workers |-> 0]
    /\ stopPc = "idle"
    /\ enqueued = {}
    /\ dropped = {}
    /\ waited = {}
    /\ handled = [e \in Events |-> 0]
    /\ raised = FALSE
    /\ privacyRaised = {}
    /\ doneCount = [e \in Events |-> 0]
    /\ enqAtStop = {}

\* The client is constructed; the other components stay as constructed.
Init ==
    /\ StreamInit
    /\ ResubInit
    /\ BatcherParked
    /\ FallbackParked
    /\ OrchInit
    /\ OptParked
    /\ MgrInit
    /\ FcParked

\* subscribe_events(request, on_event, num_workers) begins, or
\* live_event_stream(request, on_event, num_workers, privacy, quality_cb),
\* on_event being a callable (h) or None, p telling live_event_stream with
\* privacy == "dp" and q live_event_stream with a callable quality_cb:
\* self._stop_event.clear().  No thread is started yet.
Subscribe(n, h, p, q) ==
    /\ ~subscribed
    /\ subscribed' = TRUE
    /\ numWorkers' = n
    /\ onEvent' = h
    /\ qualityCb' = q
    /\ privacyDp' = p
    /\ stopEvent' = FALSE
    /\ UNCHANGED <<nonStreamVars, queue, unfinished, prodVars, workerVars,
                   stopPc, histVars>>

\* subscribe_events: producer_thread.start()
StartProducer ==
    /\ subscribed
    /\ prodPc = "none"
    /\ prodPc' = "recv"
    /\ UNCHANGED <<nonStreamVars, subscribed, callArgs,
                   stopEvent, queue, unfinished, nextEv, prodEv, workerVars,
                   stopPc, histVars>>

\* subscribe_events: for i in range(num_workers): t.start(), one worker
\* thread after the other, the producer thread running already.
StartWorker(w) ==
    /\ subscribed
    /\ prodPc # "none"
    /\ w <= numWorkers
    /\ workerPc[w] = "none"
    /\ \A v \in 1..(w - 1) : workerPc[v] # "none"
    /\ workerPc' = [workerPc EXCEPT ![w] = "check"]
    /\ UNCHANGED <<nonStreamVars, subscribed, callArgs,
                   stopEvent, queue, unfinished, prodVars, workerEv, stopPc,
                   histVars>>

\* subscribe_events has returned: every thread of the call is started.
Started ==
    /\ subscribed
    /\ prodPc # "none"
    /\ \A w \in 1..numWorkers : workerPc[w] # "none"

-----------------------------------------------------------------------------
\* Producer thread (event_producer).

\* for event in self.stub.SubscribeEvents(...): the stream yields an event.
ProducerRecv ==
    /\ prodPc = "recv"
    /\ nextEv <= NumEvents
    /\ prodEv' = nextEv
    /\ nextEv' = nextEv + 1
    /\ prodPc' = "check"
    /\ UNCHANGED <<nonStreamVars, subscribed, callArgs,
                   stopEvent, queue, unfinished, workerVars, stopPc,
                   histVars>>

\* The stream ends: the for loop is left and the thread returns.
ProducerStreamEnd ==
    /\ prodPc = "recv"
    /\ prodPc' = "done"
    /\ UNCHANGED <<nonStreamVars, subscribed, callArgs,
                   stopEvent, queue, unfinished, nextEv, prodEv, workerVars,
                   stopPc, histVars>>

\* The stream raises grpc.RpcError: logged and re-raised, the thread dies.
ProducerTransportError ==
    /\ prodPc = "recv"
    /\ prodPc' = "failed"
    /\ UNCHANGED <<nonStreamVars, subscribed, callArgs,
                   stopEvent, queue, unfinished, nextEv, prodEv, workerVars,
                   stopPc, histVars>>

\* live_event_stream with privacy == "dp": the stop flag is clear and the
\* privacy step raises on the event (event.payload has no ListFields, or
\* setattr refuses the perturbed value).  The exception is no grpc.RpcError,
\* so nothing is logged and the thread dies, the event neither put nor
\* dropped.
ProducerPrivacyError ==
    /\ prodPc = "check"
    /\ ~stopEvent
    /\ privacyDp
    /\ prodPc' = "failed"
    /\ prodEv' = 0
    /\ privacyRaised' = privacyRaised \cup {prodEv}
    /\ UNCHANGED <<nonStreamVars, subscribed, callArgs,
                   stopEvent, queue, unfinished, nextEv, workerVars, stopPc,
                   enqueued, dropped, waited, handled, raised, doneCount,
                   enqAtStop>>

\* if self._stop_event.is_set(): break; otherwise on to the put (in
\* live_event_stream after a privacy step that has not raised).
ProducerCheckStop ==
    /\ prodPc = "check"
    /\ IF stopEvent
         THEN prodPc' = "done" /\ prodEv' = 0
         ELSE prodPc' = "put" /\ prodEv' = prodEv
    /\ UNCHANGED <<nonStreamVars, subscribed, callArgs,
                   stopEvent, queue, unfinished, nextEv, workerVars, stopPc,
                   histVars>>

\* Queue.put under the mutex, with room: append, unfinished_tasks += 1.
Enqueue(e) ==
    /\ queue' = Append(queue, e)
    /\ unfinished' = unfinished + 1
    /\ enqueued' = enqueued \cup {e}

\* Mutant of ProducerPut: an unbounded queue (maxsize <= 0), every put goes in.
ProducerPutUnbounded ==
    /\ prodPc = "put"
    /\ Enqueue(prodEv)
    /\ prodPc' = "recv"
    /\ prodEv' = 0
    /\ UNCHANGED <<nonStreamVars, subscribed, callArgs,
                   stopEvent, nextEv, workerVars, stopPc, dropped, waited,
                   handled, raised, doneCount, enqAtStop, privacyRaised>>

\* Mutant of ProducerPut: put_nowait, queue.Full at once on a full queue.
ProducerPutNoWait ==
    /\ prodPc = "put"
    /\ IF Len(queue) < MaxSize
         THEN /\ Enqueue(prodEv)
              /\ UNCHANGED dropped
         ELSE /\ dropped' = dropped \cup {prodEv}
              /\ UNCHANGED <<queue, unfinished, enqueued>>
    /\ prodPc' = "recv"
    /\ prodEv' = 0
    /\ UNCHANGED <<nonStreamVars, subscribed, callArgs,
                   stopEvent, nextEv, workerVars, stopPc, waited, handled,
                   raised, doneCount, enqAtStop, privacyRaised>>

\* self._event_queue.put(event, timeout=0.1), first look at the queue: the
\* item goes in when there is room, else the thread waits on not_full.
ProducerPut ==
    /\ prodPc = "put"
    /\ IF Len(queue) < MaxSize
         THEN /\ Enqueue(prodEv)
              /\ prodPc' = "recv"
              /\ prodEv' = 0
              /\ UNCHANGED waited
         ELSE /\ prodPc' = "wait"
              /\ waited' = waited \cup {prodEv}
              /\ UNCHANGED <<queue, unfinished, enqueued, prodEv>>
    /\ UNCHANGED <<nonStreamVars, subscribed, callArgs,
                   stopEvent, nextEv, workerVars, stopPc, dropped, handled,
                   raised, doneCount, enqAtStop, privacyRaised>>

\* The waiting put is woken with room in the queue (a get freed a slot
\* within the timeout): the item goes in.
ProducerPutWake ==
    /\ prodPc = "wait"
    /\ Len(queue) < MaxSize
    /\ Enqueue(prodEv)
    /\ prodPc' = "recv"
    /\ prodEv' = 0
    /\ UNCHANGED <<nonStreamVars, subscribed, callArgs,
                   stopEvent, nextEv, workerVars, stopPc, dropped, waited,
                   handled, raised, doneCount, enqAtStop, privacyRaised>>

\* Mutant of ProducerPutFull: on queue.Full the producer logs the warning
\* and tries the same event again.
ProducerPutFullRetry ==
    /\ prodPc = "wait"
    /\ Len(queue) >= MaxSize
    /\ dropped' = dropped \cup {prodEv}
    /\ prodPc' = "put"
    /\ UNCHANGED <<nonStreamVars, subscribed, callArgs,
                   stopEvent, queue, unfinished, nextEv, prodEv, workerVars,
                   stopPc, enqueued, waited, handled, raised, doneCount,
                   enqAtStop, privacyRaised>>

\* Mutant of ProducerPutFull: on a full queue the oldest buffered event is
\* evicted to make room for the new one.
ProducerPutFullEvict ==
    /\ prodPc = "wait"
    /\ Len(queue) >= MaxSize
    /\ dropped' = dropped \cup {Head(queue)}
    /\ queue' = Append(Tail(queue), prodEv)
    /\ enqueued' = enqueued \cup {prodEv}
    /\ prodPc' = "recv"
    /\ prodEv' = 0
    /\ UNCHANGED <<nonStreamVars, subscribed, callArgs,
                   stopEvent, unfinished, nextEv, workerVars, stopPc, waited,
                   handled, raised, doneCount, enqAtStop, privacyRaised>>

\* The timeout expires with the queue still full: put raises queue.Full,
\* the producer logs the warning and goes on with the loop.
ProducerPutFull ==
    /\ prodPc = "wait"
    /\ Len(queue) >= MaxSize
    /\ dropped' = dropped \cup {prodEv}
    /\ prodPc' = "recv"
    /\ prodEv' = 0
    /\ UNCHANGED <<nonStreamVars, subscribed, callArgs,
                   stopEvent, queue, unfinished, nextEv, workerVars, stopPc,
                   enqueued, waited, handled, raised, doneCount, enqAtStop,
                   privacyRaised>>

-----------------------------------------------------------------------------
\* Worker threads (event_worker).

\* while not self._stop_event.is_set():
WorkerCheckStop(w) ==
    /\ workerPc[w] = "check"
    /\ workerPc' = [workerPc EXCEPT ![w] = IF stopEvent THEN "exit" ELSE "get"]
    /\ UNCHANGED <<nonStreamVars, subscribed, callArgs,
                   stopEvent, queue, unfinished, prodVars, workerEv, stopPc,
                   histVars>>

\* Mutant of WorkerGet: reads the head without removing it.
WorkerGetPeek(w) ==
    /\ workerPc[w] = "get"
    /\ queue # <<>>
    /\ workerEv' = [workerEv EXCEPT ![w] = Head(queue)]
    /\ workerPc' = [workerPc EXCEPT ![w] = "handle"]
    /\ UNCHANGED <<nonStreamVars, subscribed, callArgs,
                   stopEvent, queue, unfinished, prodVars, stopPc, histVars>>

\* Mutant of WorkerGet: a LIFO queue, get pops the newest buffered event.
WorkerGetNewest(w) ==
    /\ workerPc[w] = "get"
    /\ queue # <<>>
    /\ workerEv' = [workerEv EXCEPT ![w] = queue[Len(queue)]]
    /\ queue' = SubSeq(queue, 1, Len(queue) - 1)
    /\ workerPc' = [workerPc EXCEPT ![w] = "handle"]
    /\ UNCHANGED <<nonStreamVars, subscribed, callArgs,
                   stopEvent, unfinished, prodVars, stopPc, histVars>>
\* event = self._event_queue.get(timeout=0.2): pops the head.
WorkerGet(w) ==
    /\ workerPc[w] = "get"
    /\ queue # <<>>
    /\ workerEv' = [workerEv EXCEPT ![w] = Head(queue)]
    /\ queue' = Tail(queue)
    /\ workerPc' = [workerPc EXCEPT ![w] = "handle"]
    /\ UNCHANGED <<nonStreamVars, subscribed, callArgs,
                   stopEvent, unfinished, prodVars, stopPc, histVars>>

\* Mutant of WorkerGetEmpty: the get sits inside the try whose finally
\* calls task_done, so a pop that timed out is marked done as well.
WorkerGetEmptyDone(w) ==
    /\ workerPc[w] = "get"
    /\ queue = <<>>
    /\ workerPc' = [workerPc EXCEPT ![w] = "task_done"]
    /\ UNCHANGED <<nonStreamVars, subscribed, callArgs,
                   stopEvent, queue, unfinished, prodVars, workerEv, stopPc,
                   histVars>>
\* The get times out on an empty queue: except queue.Empty: continue
WorkerGetEmpty(w) ==
    /\ workerPc[w] = "get"
    /\ queue = <<>>
    /\ workerPc' = [workerPc EXCEPT ![w] = "check"]
    /\ UNCHANGED <<nonStreamVars, subscribed, callArgs,
                   stopEvent, queue, unfinished, prodVars, workerEv, stopPc,
                   histVars>>

\* Mutant of WorkerHandle: no except clause and no finally: an exception of
\* the handler ends the worker thread.
WorkerHandleUncaught(w) ==
    /\ workerPc[w] = "handle"
    /\ handled' = IF onEvent
                    THEN [handled EXCEPT ![workerEv[w]] = @ + 1]
                    ELSE handled
    /\ \E ok \in {TRUE, ~(onEvent \/ qualityCb)} :
         IF ok
           THEN /\ workerPc' = [workerPc EXCEPT ![w] = "task_done"]
                /\ UNCHANGED <<raised, workerEv>>
           ELSE /\ raised' = TRUE
                /\ workerPc' = [workerPc EXCEPT ![w] = "exit"]
                /\ workerEv' = [workerEv EXCEPT ![w] = 0]
    /\ UNCHANGED <<nonStreamVars, subscribed, callArgs,
                   stopEvent, queue, unfinished, prodVars, stopPc, enqueued,
                   dropped, waited, doneCount, enqAtStop, privacyRaised>>

\* if on_event: on_event(event), and in live_event_stream, in the same try
\* block, if quality_cb: quality_cb(...), reached when on_event is None or
\* has returned.  Each callback returns, raises an exception derived from
\* Exception, or raises one that is not (SystemExit, KeyboardInterrupt).
\* except Exception catches and logs the former ("caught"); the latter
\* passes the except clause.  Control reaches the finally clause in every
\* case, in the last one with the exception on its way out of the thread
\* ("unwind").  With neither callback given nothing is called.
WorkerHandle(w) ==
    /\ workerPc[w] = "handle"
    /\ handled' = IF onEvent
                    THEN [handled EXCEPT ![workerEv[w]] = @ + 1]
                    ELSE handled
    /\ IF onEvent \/ qualityCb
         THEN \E out \in {"task_done", "caught", "unwind"} :
                /\ workerPc' = [workerPc EXCEPT ![w] = out]
                /\ raised' = (raised \/ out = "caught")
         ELSE /\ workerPc' = [workerPc EXCEPT ![w] = "task_done"]
              /\ UNCHANGED raised
    /\ UNCHANGED <<nonStreamVars, subscribed, callArgs,
                   stopEvent, queue, unfinished, prodVars, workerEv, stopPc,
                   enqueued, dropped, waited, doneCount, enqAtStop,
                   privacyRaised>>

\* finally: self._event_queue.task_done(); then back to the loop test, or,
\* with an exception of the handler that the except clause has not caught,
\* out of event_worker: the thread ends with that exception.
WorkerTaskDone(w) ==
    /\ workerPc[w] \in {"task_done", "caught", "unwind"}
    /\ unfinished > 0
    /\ unfinished' = unfinished - 1
    /\ doneCount' = [doneCount EXCEPT ![workerEv[w]] = @ + 1]
    /\ workerEv' = [workerEv EXCEPT ![w] = 0]
    /\ workerPc' = [workerPc EXCEPT ![w] =
                       IF workerPc[w] = "unwind" THEN "dead" ELSE "check"]
    /\ UNCHANGED <<nonStreamVars, subscribed, callArgs,
                   stopEvent, queue, prodVars, stopPc, enqueued, dropped,
                   waited, handled, raised, enqAtStop, privacyRaised>>

WorkerStep(w) ==
    \/ WorkerCheckStop(w)
    \/ WorkerGet(w)
    \/ WorkerGetEmpty(w)
    \/ WorkerHandle(w)
    \/ WorkerTaskDone(w)

-----------------------------------------------------------------------------
\* The caller of stop(), after subscribe_events has returned.

\* self._stop_event.set()
StopSet ==
    /\ Started
    /\ stopPc = "idle"
    /\ stopEvent' = TRUE
    /\ stopPc' = "join"
    /\ enqAtStop' = enqueued
    /\ UNCHANGED <<nonStreamVars, subscribed, callArgs,
                   queue, unfinished, prodVars, workerVars, enqueued, dropped,
                   waited, handled, raised, doneCount, privacyRaised>>

\* Mutant of StopJoin: waits for an empty queue (while not queue.empty())
\* instead of for unfinished_tasks = 0.
StopJoinOnEmpty ==
    /\ stopPc = "join"
    /\ queue = <<>>
    /\ stopPc' = "returned"
    /\ UNCHANGED <<nonStreamVars, subscribed, callArgs,
                   stopEvent, queue, unfinished, prodVars, workerVars,
                   histVars>>

\* self._event_queue.join() returns: unfinished_tasks is 0.
StopJoin ==
    /\ stopPc = "join"
    /\ unfinished = 0
    /\ stopPc' = "returned"
    /\ UNCHANGED <<nonStreamVars, subscribed, callArgs,
                   stopEvent, queue, unfinished, prodVars, workerVars,
                   histVars>>

-----------------------------------------------------------------------------
\* The steps of event_producer in subscribe_events.
ProducerStep ==
    \/ ProducerRecv
    \/ ProducerStreamEnd
    \/ ProducerTransportError
    \/ ProducerCheckStop
    \/ ProducerPut
    \/ ProducerPutWake
    \/ ProducerPutFull

\* The steps of event_producer in live_event_stream.
LiveProducerStep ==
    \/ ProducerStep
    \/ ProducerPrivacyError

\* The thread starts, the workers and stop(), the same after either call.
StreamSteps ==
    \/ StartProducer
    \/ \E w \in Workers : StartWorker(w)
    \/ \E w \in Workers : WorkerStep(w)
    \/ StopSet
    \/ StopJoin

\* A client on which either method is called (what live_event_stream does
\* without quality_cb and with privacy other than "dp" is what
\* subscribe_events does).
Next ==
    \/ \E n \in 0..MaxWorkers : \E h, p, q \in BOOLEAN :
         Subscribe(n, h, p, q)
    \/ LiveProducerStep
    \/ StreamSteps

\* A client on which subscribe_events is called.
NextSubscribe ==
    \/ \E n \in 0..MaxWorkers : \E h \in BOOLEAN : Subscribe(n, h, FALSE, FALSE)
    \/ ProducerStep
    \/ StreamSteps

\* A client on which live_event_stream is called, privacy left at "dp",
\* with both callbacks (on_event and quality_cb) or with neither.  With one
\* of the two the workers take the steps they take with both, a call of
\* on_event being counted only if on_event is the one given; Next has
\* these calls.
NextLive ==
    \/ \E n \in 0..MaxWorkers : \E c \in BOOLEAN :
         Subscribe(n, c, TRUE, c)
    \/ LiveProducerStep
    \/ StreamSteps

Spec == Init /\ [][Next]_vars

SpecSubscribe == Init /\ [][NextSubscribe]_vars

SpecLive == Init /\ [][NextLive]_vars

\* Thread scheduling is fair: a thread that can take its next step takes
\* it, handlers return, timeouts expire.  What the event bus sends (the next
\* event, the end of the stream, an error) and when stop() is called are
\* left to the environment.
FairSpec ==
    /\ Spec
    /\ WF_streamVars(StartProducer)
    /\ \A w \in Workers : WF_streamVars(StartWorker(w))
    /\ WF_streamVars(ProducerCheckStop)
    /\ WF_streamVars(ProducerPut)
    /\ WF_streamVars(ProducerPutWake \/ ProducerPutFull)
    /\ \A w \in Workers : WF_streamVars(WorkerStep(w))
    /\ WF_streamVars(StopJoin)

-----------------------------------------------------------------------------
\* Helpers for the properties.

Range(q) == {q[i] : i \in 1..Len(q)}

\* The workers that hold event e (dequeued, task_done not yet called).
Holders(e) == {w \in Workers : workerEv[w] = e}

\* Events dequeued and not yet marked done.
InFlight == {e \in Events : Holders(e) # {}}

-----------------------------------------------------------------------------
\* C1: stop() is live and lossless: once stop() has set the flag and waits
\* in the queue join, it eventually returns, and every event enqueued before
\* the call has then been passed to the handler and marked done (with a
\* handler given and at least one worker).
C1_StopLiveLossless ==
    (stopPc = "join" /\ numWorkers >= 1 /\ onEvent) ~>
        (/\ stopPc = "returned"
         /\ \A e \in enqAtStop : handled[e] >= 1 /\ doneCount[e] >= 1)

\* The state the code reaches instead: stop() waits in join, every thread
\* has left its loop, and events are still buffered.
C1_Stranded ==
    /\ stopPc = "join"
    /\ queue # <<>>
    /\ prodPc \in {"done", "failed"}
    /\ \A w \in Workers : workerPc[w] \in {"none", "exit"}

\* C2: whenever stop() returns, the pending count is 0: nothing is buffered
\* in the queue and no dequeued event is still un-marked as done.
C2_StopReturnsDrained ==
    [][(stopPc = "join" /\ stopPc' = "returned") =>
          /\ unfinished' = 0
          /\ queue' = <<>>
          /\ InFlight' = {}]_vars

\* stop() has returned after waiting for events that were pending.
C2_Witness ==
    /\ stopPc = "returned"
    /\ enqAtStop # {}
    /\ \E e \in enqAtStop : doneCount[e] = 1

\* C3: no put into the queue succeeds once stop() has set the stop flag.
C3_NoPushAfterStop ==
    [][stopPc # "idle" => enqueued' = enqueued]_vars

\* C4: the number of buffered events never exceeds the queue's capacity.
C4_QueueBounded == Len(queue) <= MaxSize

\* The queue is full and the producer has one more event to put.
C4_Witness == Len(queue) = MaxSize /\ prodPc = "wait"

\* C5: exactly-once handoff: an event is held by at most one worker, it is
\* passed to the handler and marked done at most once, it is buffered at
\* most once, and once dequeued it is no longer in the queue.
C5_ExactlyOnce ==
    \A e \in Events :
        /\ Cardinality(Holders(e)) <= 1
        /\ handled[e] <= 1
        /\ doneCount[e] <= 1
        /\ Cardinality({i \in 1..Len(queue) : queue[i] = e}) <= 1
        /\ (Holders(e) # {} \/ handled[e] > 0) => e \notin Range(queue)

\* Two workers hold (different) events at the same time.
C5_Witness ==
    /\ workerPc[1] \in {"handle", "task_done"}
    /\ workerPc[2] \in {"handle", "task_done"}
    /\ workerEv[1] # workerEv[2]

\* C6: an event whose put raised queue.Full is dropped for good: it was not
\* and is never enqueued, buffered, held by a worker or handled; and the
\* step that drops it leaves the producer in its loop, at the next event of
\* the stream.
C6_DroppedForGood ==
    /\ [](\A e \in dropped :
            /\ e \notin enqueued
            /\ e \notin Range(queue)
            /\ Holders(e) = {}
            /\ handled[e] = 0
            /\ prodEv # e)
    /\ [][dropped' # dropped => prodPc' = "recv" /\ nextEv' = nextEv]_vars

\* An event was dropped and a later event of the stream was enqueued and
\* handled.
C6_Witness ==
    \E d \in dropped : \E e \in enqueued : e > d /\ handled[e] = 1

\* C7 as claimed: a put that finds the queue at capacity fails at once, so
\* an event whose put found the queue at capacity is never enqueued, not
\* even when a worker frees a slot right after.
C7_PushNonBlocking == waited \cap enqueued = {}

\* C7 as it holds: a put that finds the queue at capacity waits (for the put
\* timeout at most); an event is dropped only out of that wait and only with
\* the queue still at capacity, and the put leaves the wait with the event
\* enqueued whenever a slot has been freed.
C7_PushWaitsBounded ==
    /\ [][dropped' # dropped => prodPc = "wait" /\ Len(queue) >= MaxSize]_vars
    /\ [][(prodPc = "wait" /\ prodPc' # "wait") =>
            IF Len(queue) < MaxSize
              THEN prodEv \in enqueued' /\ dropped' = dropped
              ELSE prodEv \in dropped' /\ enqueued' = enqueued]_vars

\* An event whose put found the queue at capacity was enqueued, and another
\* one was dropped.
C7_Witness == waited \cap enqueued # {} /\ dropped # {}

\* The events whose put has completed, while stop() has not been called:
\* those received that the producer no longer holds, but for one on which
\* the privacy step raised before the put.
Attempted ==
    {e \in Events : e < nextEv /\ e # prodEv /\ e \notin privacyRaised}

\* C8: with no worker started (and stop() not called), of the events
\* received so far exactly the first MaxSize are enqueued, every later one
\* is dropped, and the queue holds the enqueued ones in arrival order.
C8_FirstCKept ==
    (subscribed /\ numWorkers = 0 /\ stopPc = "idle") =>
        /\ enqueued = {e \in Attempted : e <= MaxSize}
        /\ dropped = {e \in Attempted : e > MaxSize}
        /\ queue = [i \in 1..Cardinality(enqueued) |-> i]
        /\ Len(queue) <= MaxSize

\* All NumEvents > MaxSize events were received with no worker: the queue
\* holds 1..MaxSize and MaxSize+1..NumEvents are dropped.
C8_Witness ==
    /\ numWorkers = 0
    /\ stopPc = "idle"
    /\ prodPc = "recv"
    /\ nextEv = NumEvents + 1
    /\ NumEvents > MaxSize + 1
    /\ queue = [i \in 1..MaxSize |-> i]
    /\ dropped = (MaxSize + 1)..NumEvents

\* C9 as stated: an exception of the handler does not end the worker: no
\* worker thread is ended by an exception.
C9_WorkerKeepsRunning == \A w \in Workers : workerPc[w] # "dead"

\* C9 amended: handler isolation.  The step in which the handler raises
\* takes the worker, still holding the event, to the task_done call of the
\* finally clause; the event is not yet marked done and no other worker
\* holds it; that call marks it done, once (no event is ever marked done
\* twice), and decrements the pending count by one.  After it the worker is
\* back at its loop test, not out of the loop, when the exception was
\* derived from Exception ("caught"); when it was not ("unwind") the
\* exception ends the worker thread, and nothing else ends a worker in that
\* way.
C9_HandlerIsolation ==
    /\ [](\A w \in Workers :
            workerPc[w] \in {"caught", "unwind"} =>
                /\ workerEv[w] # 0
                /\ doneCount[workerEv[w]] = 0
                /\ Holders(workerEv[w]) = {w})
    /\ [](\A e \in Events : doneCount[e] <= 1)
    /\ [][\A w \in Workers :
            (workerPc[w] = "handle" /\ workerPc'[w] # "handle") =>
                /\ workerPc'[w] \in {"task_done", "caught", "unwind"}
                /\ workerEv'[w] = workerEv[w]
                /\ unfinished' = unfinished]_vars
    /\ [][\A w \in Workers :
            (workerPc[w] \in {"task_done", "caught"}
                /\ workerPc'[w] # workerPc[w]) =>
                /\ workerPc'[w] = "check"
                /\ doneCount'[workerEv[w]] = 1
                /\ unfinished' = unfinished - 1]_vars
    /\ [][\A w \in Workers :
            (workerPc[w] = "unwind" /\ workerPc'[w] # "unwind") =>
                /\ workerPc'[w] = "dead"
                /\ doneCount'[workerEv[w]] = 1
                /\ unfinished' = unfinished - 1]_vars
    /\ [][\A w \in Workers :
            (workerPc[w] # "dead" /\ workerPc'[w] = "dead") =>
                workerPc[w] = "unwind"]_vars

\* With one worker: the handler raised an exception derived from Exception
\* for the first event, the worker marked it done and went on to the second
\* event, whose handler raised an exception that is not; that event was
\* marked done too and the worker thread has ended.
C9_Witness ==
    /\ numWorkers = 1
    /\ raised
    /\ workerPc[1] = "dead"
    /\ \A e \in 1..2 : handled[e] = 1 /\ doneCount[e] = 1
    /\ \A e \in Events : e > 2 => handled[e] = 0

\* C10: a transport error ends only the producer (it has failed, and not in
\* the privacy step): the step leaves the queue, the pending count and the
\* workers as they are, and every event buffered when the producer has
\* failed during normal operation (a handler given, at least one worker,
\* stop() not called so far) is eventually passed to the handler.
C10_TransportErrorIsolated ==
    /\ [][(prodPc # "failed" /\ prodPc' = "failed" /\ privacyRaised' = {}) =>
            /\ queue' = queue
            /\ unfinished' = unfinished
            /\ workerPc' = workerPc
            /\ workerEv' = workerEv]_vars
    /\ \A e \in Events :
          []((/\ prodPc = "failed"
              /\ privacyRaised = {}
              /\ stopPc = "idle"
              /\ numWorkers >= 1
              /\ onEvent
              /\ e \in Range(queue))
                 => <>(handled[e] >= 1))

\* What holds of a transport error: as long as stop() is not called and not
\* every worker has been ended by an exception of the handler that is not
\* derived from Exception, the buffered events are delivered.
C10_DeliveredUnlessStopped ==
    \A e \in Events :
        []((/\ prodPc = "failed"
            /\ privacyRaised = {}
            /\ stopPc = "idle"
            /\ numWorkers >= 1
            /\ onEvent
            /\ e \in Range(queue))
               => <>(\/ handled[e] >= 1
                     \/ stopPc # "idle"
                     \/ \A w \in 1..numWorkers : workerPc[w] = "dead"))

-----------------------------------------------------------------------------
\* Delivery order and queue accounting of one subscription.

\* The events that have left the queue: enqueued and no longer buffered.
Dequeued == enqueued \ Range(queue)

\* C36: delivery order: the queue holds the events in the order of their
\* puts and get takes the oldest, so every event still buffered was put
\* after every event already dequeued; with one worker the handler is
\* called on the events in the order of their puts; and a worker takes an
\* event only when it holds none, so it has one handler call in progress at
\* a time.
C36_FifoDelivery ==
    /\ [](/\ \A i, j \in 1..Len(queue) : i < j => queue[i] < queue[j]
          /\ \A e \in Range(queue) : \A d \in Dequeued : d < e)
    /\ [][\A w \in Workers :
            workerEv'[w] # workerEv[w] /\ workerEv'[w] # 0 =>
                /\ workerEv[w] = 0
                /\ queue # <<>>
                /\ workerEv'[w] = Head(queue)
                /\ queue' = Tail(queue)]_vars
    /\ [][\A e \in Events :
            numWorkers = 1 /\ handled'[e] # handled[e] =>
                \A d \in enqueued : d < e => handled[d] = 1]_vars

\* One worker has handled three events in turn, two of them buffered at
\* the same time while it was busy.
C36_Witness ==
    /\ numWorkers = 1
    /\ waited # {}
    /\ \A e \in 1..3 : e \in enqueued /\ handled[e] = 1

\* The workers that hold an event: dequeued, task_done not yet called.
Busy == {w \in Workers : workerEv[w] # 0}

\* C38: queue accounting: the pending count is the number of buffered
\* events plus the number of events dequeued and not yet marked done, and
\* is never negative; task_done is called once for every dequeued event,
\* by the worker that holds it, and never after a get that timed out.
C38_QueueAccounting ==
    /\ [](/\ unfinished = Len(queue) + Cardinality(Busy)
          /\ unfinished >= 0
          /\ \A e \in Events :
                doneCount[e] =
                    IF e \in Dequeued /\ Holders(e) = {} THEN 1 ELSE 0)
    /\ [][unfinished' < unfinished =>
            \E w \in Busy :
                /\ workerPc[w] \in {"task_done", "caught", "unwind"}
                /\ workerEv'[w] = 0
                /\ doneCount'[workerEv[w]] = doneCount[workerEv[w]] + 1
                /\ unfinished' = unfinished - 1]_vars
    /\ [][\A w \in Workers :
            workerPc[w] = "get" /\ workerPc'[w] = "check" =>
                unfinished' = unfinished /\ doneCount' = doneCount]_vars

\* Two events are buffered, a third one is held by a worker, and an earlier
\* one has been marked done: the pending count is 3.
C38_Witness ==
    /\ unfinished = 3
    /\ Len(queue) = 2
    /\ Cardinality(Busy) = 1
    /\ \E e \in Events : doneCount[e] = 1

-----------------------------------------------------------------------------
\* Repeated subscribe_events / stop calls: the actions.

\* The latest subscribe_events call has returned: its threads are started.
RsStarted ==
    /\ rsGen >= 1
    /\ rsProd[rsGen] # "none"
    /\ \A i \in 1..rsN : rsWork[rsGen][i] # "none"

\* subscribe_events(num_workers = n) begins, on a fresh client or after a
\* stop() that has returned: self._stop_event.clear().  No thread of the
\* call is started yet.
RsSubscribe(n) ==
    /\ rsGen < MaxSubs
    /\ rsGen = 0 \/ rsStopPc = "returned"
    /\ rsGen' = rsGen + 1
    /\ rsN' = n
    /\ rsStop' = FALSE
    /\ rsStopPc' = "idle"
    /\ UNCHANGED <<rsLen, rsUnfinished, rsLeft, rsProd, rsWork>>
    /\ UNCHANGED nonResubVars

\* subscribe_events: producer_thread.start()
RsStartProducer ==
    /\ rsGen >= 1
    /\ rsProd[rsGen] = "none"
    /\ rsProd' = [rsProd EXCEPT ![rsGen] = "recv"]
    /\ UNCHANGED <<rsGen, rsN, rsStop, rsLen, rsUnfinished, rsLeft, rsWork,
                   rsStopPc>>
    /\ UNCHANGED nonResubVars

\* subscribe_events: for i in range(num_workers): t.start(), one worker
\* thread after the other, the producer thread running already.
RsStartWorker(i) ==
    /\ rsGen >= 1
    /\ rsProd[rsGen] # "none"
    /\ i <= rsN
    /\ rsWork[rsGen][i] = "none"
    /\ \A k \in 1..(i - 1) : rsWork[rsGen][k] # "none"
    /\ rsWork' = [rsWork EXCEPT ![rsGen][i] = "check"]
    /\ UNCHANGED <<rsGen, rsN, rsStop, rsLen, rsUnfinished, rsLeft, rsProd,
                   rsStopPc>>
    /\ UNCHANGED nonResubVars

\* for event in self.stub.SubscribeEvents(...): the stream yields an event.
RsProducerRecv(g) ==
    /\ rsProd[g] = "recv"
    /\ rsLeft > 0
    /\ rsLeft' = rsLeft - 1
    /\ rsProd' = [rsProd EXCEPT ![g] = "check"]
    /\ UNCHANGED <<rsGen, rsN, rsStop, rsLen, rsUnfinished, rsWork, rsStopPc>>
    /\ UNCHANGED nonResubVars

\* The stream ends, or raises grpc.RpcError: the producer thread ends.
RsProducerEnd(g) ==
    /\ rsProd[g] = "recv"
    /\ \E how \in {"done", "failed"} : rsProd' = [rsProd EXCEPT ![g] = how]
    /\ UNCHANGED <<rsGen, rsN, rsStop, rsLen, rsUnfinished, rsLeft, rsWork,
                   rsStopPc>>
    /\ UNCHANGED nonResubVars

\* if self._stop_event.is_set(): break
RsProducerCheckStop(g) ==
    /\ rsProd[g] = "check"
    /\ rsProd' = [rsProd EXCEPT ![g] = IF rsStop THEN "done" ELSE "put"]
    /\ UNCHANGED <<rsGen, rsN, rsStop, rsLen, rsUnfinished, rsLeft, rsWork,
                   rsStopPc>>
    /\ UNCHANGED nonResubVars

\* self._event_queue.put(event, timeout=0.1): the item goes in when there
\* is room (at once, or as a get frees a slot within the timeout); else the
\* thread waits, and drops the event when the queue is still full as the
\* timeout expires.
RsProducerPut(g) ==
    /\ rsProd[g] \in {"put", "wait"}
    /\ IF rsLen < MaxSize
         THEN /\ rsLen' = rsLen + 1
              /\ rsUnfinished' = rsUnfinished + 1
              /\ rsProd' = [rsProd EXCEPT ![g] = "recv"]
         ELSE /\ rsProd' = [rsProd EXCEPT ![g] =
                              IF rsProd[g] = "put" THEN "wait" ELSE "recv"]
              /\ UNCHANGED <<rsLen, rsUnfinished>>
    /\ UNCHANGED <<rsGen, rsN, rsStop, rsLeft, rsWork, rsStopPc>>
    /\ UNCHANGED nonResubVars

\* while not self._stop_event.is_set():
RsWorkerCheckStop(g, i) ==
    /\ rsWork[g][i] = "check"
    /\ rsWork' = [rsWork EXCEPT ![g][i] = IF rsStop THEN "exit" ELSE "get"]
    /\ UNCHANGED <<rsGen, rsN, rsStop, rsLen, rsUnfinished, rsLeft, rsProd,
                   rsStopPc>>
    /\ UNCHANGED nonResubVars

\* event = self._event_queue.get(timeout=0.2): pops an event, or times out
\* on an empty queue (except queue.Empty: continue).
RsWorkerGet(g, i) ==
    /\ rsWork[g][i] = "get"
    /\ IF rsLen > 0
         THEN /\ rsLen' = rsLen - 1
              /\ rsWork' = [rsWork EXCEPT ![g][i] = "handle"]
         ELSE /\ rsWork' = [rsWork EXCEPT ![g][i] = "check"]
              /\ UNCHANGED rsLen
    /\ UNCHANGED <<rsGen, rsN, rsStop, rsUnfinished, rsLeft, rsProd,
                   rsStopPc>>
    /\ UNCHANGED nonResubVars

\* if on_event: on_event(event), returning or raising an exception derived
\* from Exception (caught and logged), or no call with on_event None; then
\* the finally clause.  Or on_event raises an exception that is not derived
\* from Exception: the finally clause runs with the exception on its way out
\* of the thread ("unwind").
RsWorkerHandle(g, i) ==
    /\ rsWork[g][i] = "handle"
    /\ \E next \in {"task_done", "unwind"} :
          rsWork' = [rsWork EXCEPT ![g][i] = next]
    /\ UNCHANGED <<rsGen, rsN, rsStop, rsLen, rsUnfinished, rsLeft, rsProd,
                   rsStopPc>>
    /\ UNCHANGED nonResubVars

\* finally: self._event_queue.task_done(); then back to the loop test, or,
\* with an uncaught exception of the handler, the end of the thread.
RsWorkerTaskDone(g, i) ==
    /\ rsWork[g][i] \in {"task_done", "unwind"}
    /\ rsUnfinished > 0
    /\ rsUnfinished' = rsUnfinished - 1
    /\ rsWork' = [rsWork EXCEPT ![g][i] =
                     IF rsWork[g][i] = "unwind" THEN "dead" ELSE "check"]
    /\ UNCHANGED <<rsGen, rsN, rsStop, rsLen, rsLeft, rsProd, rsStopPc>>
    /\ UNCHANGED nonResubVars

\* stop(), after subscribe_events has returned: self._stop_event.set()
RsStopSet ==
    /\ RsStarted
    /\ rsStopPc = "idle"
    /\ rsStop' = TRUE
    /\ rsStopPc' = "join"
    /\ UNCHANGED <<rsGen, rsN, rsLen, rsUnfinished, rsLeft, rsProd, rsWork>>
    /\ UNCHANGED nonResubVars

\* stop(): self._event_queue.join() returns, unfinished_tasks is 0.  No
\* thread is joined.
RsStopJoin ==
    /\ rsStopPc = "join"
    /\ rsUnfinished = 0
    /\ rsStopPc' = "returned"
    /\ UNCHANGED <<rsGen, rsN, rsStop, rsLen, rsUnfinished, rsLeft, rsProd,
                   rsWork>>
    /\ UNCHANGED nonResubVars

ResubNext ==
    \/ \E n \in 0..RsMaxWorkers : RsSubscribe(n)
    \/ RsStartProducer
    \/ \E i \in RsWorkers : RsStartWorker(i)
    \/ \E g \in Subs :
          \/ RsProducerRecv(g)
          \/ RsProducerEnd(g)
          \/ RsProducerCheckStop(g)
          \/ RsProducerPut(g)
    \/ \E g \in Subs : \E i \in RsWorkers :
          \/ RsWorkerCheckStop(g, i)
          \/ RsWorkerGet(g, i)
          \/ RsWorkerHandle(g, i)
          \/ RsWorkerTaskDone(g, i)
    \/ RsStopSet
    \/ RsStopJoin

\* A fresh client; the stream model of one subscription is not run.
InitResub ==
    /\ StreamInit
    /\ ResubInit
    /\ BatcherParked
    /\ FallbackParked
    /\ OrchInit
    /\ OptParked
    /\ MgrInit
    /\ FcParked

SpecResub == InitResub /\ [][ResubNext]_vars

\* The producer thread of call g is alive.
RsProducerLive(g) == rsProd[g] \in {"recv", "check", "put", "wait"}

\* The live worker threads of call g.
RsLiveWorkers(g) ==
    {i \in RsWorkers :
        rsWork[g][i] \in {"check", "get", "handle", "task_done", "unwind"}}

\* C11: after any sequence of subscribe and stop calls at most one producer
\* thread is alive, no thread of an earlier subscribe call is alive beside
\* those of the latest one, and until stop() is called the live workers are
\* the num_workers workers of the latest call.
C11_OneSubscriptionLive ==
    /\ Cardinality({g \in Subs : RsProducerLive(g)}) <= 1
    /\ \A g \in Subs :
          g < rsGen => ~RsProducerLive(g) /\ RsLiveWorkers(g) = {}
    /\ (RsStarted /\ rsStopPc = "idle") =>
          Cardinality(RsLiveWorkers(rsGen)) = rsN

\* Thread scheduling is fair: each thread that can take a step takes it,
\* and a producer waiting on the stream is released, by the next event, by
\* the end of the stream or by the deadline of the call (timeout =
\* self.timeout).  When subscribe_events and stop are called is left to
\* the caller.
FairSpecResub ==
    /\ SpecResub
    /\ WF_resubVars(RsStartProducer)
    /\ \A i \in RsWorkers : WF_resubVars(RsStartWorker(i))
    /\ \A g \in Subs :
          /\ WF_resubVars(RsProducerRecv(g) \/ RsProducerEnd(g))
          /\ WF_resubVars(RsProducerCheckStop(g))
          /\ WF_resubVars(RsProducerPut(g))
          /\ \A i \in RsWorkers :
                WF_resubVars(\/ RsWorkerCheckStop(g, i)
                             \/ RsWorkerGet(g, i)
                             \/ RsWorkerHandle(g, i)
                             \/ RsWorkerTaskDone(g, i))
    /\ WF_resubVars(RsStopJoin)

\* C35: cooperative cancellation: once stop() has set the stop flag, the
\* producer thread and every worker thread of the subscription it stops
\* eventually leave their loops and terminate.
C35_TasksTerminate ==
    \A g \in Subs :
        (rsStop /\ rsGen = g) ~>
            (~RsProducerLive(g) /\ RsLiveWorkers(g) = {})

\* The state the code reaches instead: the flag was set and cleared again
\* by the next subscribe_events, and a worker of the stopped subscription
\* is back in its loop, past the test of the flag.
C35_Survivor ==
    /\ rsGen = 2
    /\ ~rsStop
    /\ \E i \in RsWorkers : rsWork[1][i] = "get"

-----------------------------------------------------------------------------
(***************************************************************************)
(* EventBatcher: the actions.                                              *)
(***************************************************************************)

Min(a, b) == IF a <= b THEN a ELSE b

\* A batch handed to self._on_batch, and the flush that handed it over.
Batch(items, by) == [items |-> items, by |-> by]

\* add_event flushing only above batch_size: len(self._events) > batch_size
AddCheckAbove(a) ==
    /\ addPc[a] = "check"
    /\ IF Len(events) > batchSize
       THEN /\ events' = <<>>
            /\ delivered' = Append(delivered, Batch(events, "add"))
            /\ addPc' = [addPc EXCEPT ![a] = "handler"]
            /\ UNCHANGED <<lock, addItem>>
       ELSE /\ lock' = "none"
            /\ addPc' = [addPc EXCEPT ![a] = "idle"]
            /\ addItem' = [addItem EXCEPT ![a] = 0]
            /\ UNCHANGED <<events, delivered>>
    /\ UNCHANGED <<nonBatcherVars, batchSize, numAdders, onBatch, batchStop,
                   lastFlushAge, sleepLeft, nowAge, nextItem, timerPc,
                   bstopPc, appended, addedAtStop>>

\* The timer's flush handing over the list it then clears (batch =
\* self._events, no copy): the handler gets an empty batch.
TimerCheckAlias ==
    /\ timerPc = "acquire"
    /\ lock = "none"
    /\ IF events # <<>> /\ lastFlushAge >= Interval
       THEN /\ lock' = "timer"
            /\ events' = <<>>
            /\ delivered' = Append(delivered, Batch(<<>>, "timer"))
            /\ nowAge' = 0
            /\ timerPc' = "handler"
       ELSE /\ timerPc' = "loop"
            /\ UNCHANGED <<lock, events, delivered, nowAge>>
    /\ UNCHANGED <<nonBatcherVars, batchSize, numAdders, onBatch, batchStop,
                   lastFlushAge, sleepLeft, nextItem, addPc, addItem, bstopPc,
                   appended, addedAtStop>>

\* add_event appending without taking the lock.
AddAppendUnlocked(a) ==
    /\ addPc[a] = "acquire"
    /\ events' = Append(events, addItem[a])
    /\ appended' = Append(appended, addItem[a])
    /\ addPc' = [addPc EXCEPT ![a] = "check"]
    /\ UNCHANGED <<nonBatcherVars, batchSize, numAdders, onBatch, lock,
                   batchStop, lastFlushAge, sleepLeft, nowAge, nextItem,
                   addItem, timerPc, bstopPc, delivered, addedAtStop>>

\* add_event releasing the lock before _flush calls the handler.
AddCheckUnlocked(a) ==
    /\ addPc[a] = "check"
    /\ lock' = "none"
    /\ IF Len(events) >= batchSize
       THEN /\ events' = <<>>
            /\ delivered' = Append(delivered, Batch(events, "add"))
            /\ addPc' = [addPc EXCEPT ![a] = "handler"]
            /\ UNCHANGED addItem
       ELSE /\ addPc' = [addPc EXCEPT ![a] = "idle"]
            /\ addItem' = [addItem EXCEPT ![a] = 0]
            /\ UNCHANGED <<events, delivered>>
    /\ UNCHANGED <<nonBatcherVars, batchSize, numAdders, onBatch, batchStop,
                   lastFlushAge, sleepLeft, nowAge, nextItem, timerPc,
                   bstopPc, appended, addedAtStop>>

\* A time.sleep that may return before the interval has passed.
TimerWakeEarly ==
    /\ timerPc = "sleep"
    /\ timerPc' = "acquire"
    /\ UNCHANGED <<nonBatcherVars, batchSize, numAdders, onBatch, events,
                   lock, batchStop, lastFlushAge, sleepLeft, nowAge, nextItem,
                   addPc, addItem, bstopPc, appended, delivered, addedAtStop>>

\* stop() returning after the join, without the final flush.
BatchStopNoFlush ==
    /\ bstopPc = "acquire"
    /\ lock = "none"
    /\ bstopPc' = "returned"
    /\ UNCHANGED <<nonBatcherVars, batchSize, numAdders, onBatch, events,
                   lock, batchStop, lastFlushAge, sleepLeft, nowAge, nextItem,
                   addPc, addItem, timerPc, appended, delivered, addedAtStop>>

\* add_event inserting the event at the head of the buffer.
AddPrepend(a) ==
    /\ addPc[a] = "acquire"
    /\ lock = "none"
    /\ lock' = "add"
    /\ events' = <<addItem[a]>> \o events
    /\ appended' = Append(appended, addItem[a])
    /\ addPc' = [addPc EXCEPT ![a] = "check"]
    /\ UNCHANGED <<nonBatcherVars, batchSize, numAdders, onBatch, batchStop,
                   lastFlushAge, sleepLeft, nowAge, nextItem, addItem,
                   timerPc, bstopPc, delivered, addedAtStop>>
\* add_event is called by adder a with the next event.
AddBegin(a) ==
    /\ a <= numAdders
    /\ addPc[a] = "idle"
    /\ nextItem <= MaxItems
    /\ addPc' = [addPc EXCEPT ![a] = "acquire"]
    /\ addItem' = [addItem EXCEPT ![a] = nextItem]
    /\ nextItem' = nextItem + 1
    /\ UNCHANGED <<nonBatcherVars, batchSize, numAdders, onBatch, events,
                   lock, batchStop, lastFlushAge, sleepLeft, nowAge, timerPc,
                   bstopPc, appended, delivered, addedAtStop>>

\* add_event: with self._lock: self._events.append(event)
AddAppend(a) ==
    /\ addPc[a] = "acquire"
    /\ lock = "none"
    /\ lock' = "add"
    /\ events' = Append(events, addItem[a])
    /\ appended' = Append(appended, addItem[a])
    /\ addPc' = [addPc EXCEPT ![a] = "check"]
    /\ UNCHANGED <<nonBatcherVars, batchSize, numAdders, onBatch, batchStop,
                   lastFlushAge, sleepLeft, nowAge, nextItem, addItem,
                   timerPc, bstopPc, delivered, addedAtStop>>

\* add_event: if len(self._events) >= self._batch_size: self._flush(), which
\* copies the buffer, clears it and, if self._on_batch, calls the handler;
\* otherwise (no flush, or no handler) the lock is released and add_event
\* returns.
AddCheck(a) ==
    /\ addPc[a] = "check"
    /\ IF Len(events) >= batchSize /\ onBatch
       THEN /\ events' = <<>>
            /\ delivered' = Append(delivered, Batch(events, "add"))
            /\ addPc' = [addPc EXCEPT ![a] = "handler"]
            /\ UNCHANGED <<lock, addItem>>
       ELSE /\ events' = IF Len(events) >= batchSize THEN <<>> ELSE events
            /\ lock' = "none"
            /\ addPc' = [addPc EXCEPT ![a] = "idle"]
            /\ addItem' = [addItem EXCEPT ![a] = 0]
            /\ UNCHANGED delivered
    /\ UNCHANGED <<nonBatcherVars, batchSize, numAdders, onBatch, batchStop,
                   lastFlushAge, sleepLeft, nowAge, nextItem, timerPc,
                   bstopPc, appended, addedAtStop>>

\* The handler called by add_event returns or raises; either way the with
\* block releases the lock and add_event is over.
AddHandlerReturn(a) ==
    /\ addPc[a] = "handler"
    /\ lock' = "none"
    /\ addPc' = [addPc EXCEPT ![a] = "idle"]
    /\ addItem' = [addItem EXCEPT ![a] = 0]
    /\ UNCHANGED <<nonBatcherVars, batchSize, numAdders, onBatch, events,
                   batchStop, lastFlushAge, sleepLeft, nowAge, nextItem,
                   timerPc, bstopPc, appended, delivered, addedAtStop>>

\* _run: while not self._stop_event.is_set(): time.sleep(interval) begins.
TimerLoop ==
    /\ timerPc = "loop"
    /\ IF batchStop
       THEN timerPc' = "done" /\ UNCHANGED sleepLeft
       ELSE timerPc' = "sleep" /\ sleepLeft' = Interval
    /\ UNCHANGED <<nonBatcherVars, batchSize, numAdders, onBatch, events,
                   lock, batchStop, lastFlushAge, nowAge, nextItem, addPc,
                   addItem, bstopPc, appended, delivered, addedAtStop>>

\* _run: time.sleep returns, not before the interval has passed.
TimerWake ==
    /\ timerPc = "sleep"
    /\ sleepLeft = 0
    /\ timerPc' = "acquire"
    /\ UNCHANGED <<nonBatcherVars, batchSize, numAdders, onBatch, events,
                   lock, batchStop, lastFlushAge, sleepLeft, nowAge, nextItem,
                   addPc, addItem, bstopPc, appended, delivered, addedAtStop>>

\* _run: with self._lock: now = time.time(); if self._events and
\* (now - self._last_flush >= interval): self._flush() begins; otherwise the
\* lock is released at once.  With no handler (self._on_batch is None)
\* _flush clears the buffer and returns, and self._last_flush = now follows
\* in the same locked block.
TimerCheck ==
    /\ timerPc = "acquire"
    /\ lock = "none"
    /\ IF events # <<>> /\ lastFlushAge >= Interval
       THEN IF onBatch
              THEN /\ lock' = "timer"
                   /\ events' = <<>>
                   /\ delivered' = Append(delivered, Batch(events, "timer"))
                   /\ nowAge' = 0
                   /\ timerPc' = "handler"
                   /\ UNCHANGED lastFlushAge
              ELSE /\ events' = <<>>
                   /\ lastFlushAge' = 0
                   /\ timerPc' = "loop"
                   /\ UNCHANGED <<lock, delivered, nowAge>>
       ELSE /\ timerPc' = "loop"
            /\ UNCHANGED <<lock, events, delivered, nowAge, lastFlushAge>>
    /\ UNCHANGED <<nonBatcherVars, batchSize, numAdders, onBatch, batchStop,
                   sleepLeft, nextItem, addPc, addItem, bstopPc, appended,
                   addedAtStop>>

\* The handler called by the timer returns, then self._last_flush = now; or
\* it raises, which ends the timer thread with _last_flush as it was.
TimerHandlerReturn ==
    /\ timerPc = "handler"
    /\ lock' = "none"
    /\ nowAge' = 0
    /\ \E ok \in BOOLEAN :
          IF ok
          THEN timerPc' = "loop" /\ lastFlushAge' = nowAge
          ELSE timerPc' = "dead" /\ UNCHANGED lastFlushAge
    /\ UNCHANGED <<nonBatcherVars, batchSize, numAdders, onBatch, events,
                   batchStop, sleepLeft, nextItem, addPc, addItem, bstopPc,
                   appended, delivered, addedAtStop>>

\* stop(): self._stop_event.set()
BatchStopSet ==
    /\ bstopPc = "idle"
    /\ batchStop' = TRUE
    /\ bstopPc' = "join"
    /\ addedAtStop' = {appended[i] : i \in 1..Len(appended)}
    /\ UNCHANGED <<nonBatcherVars, batchSize, numAdders, onBatch, events,
                   lock, lastFlushAge, sleepLeft, nowAge, nextItem, addPc,
                   addItem, timerPc, appended, delivered>>

\* stop(): self._thread.join() returns once the timer thread has ended.
BatchStopJoin ==
    /\ bstopPc = "join"
    /\ timerPc \in {"done", "dead"}
    /\ bstopPc' = "acquire"
    /\ UNCHANGED <<nonBatcherVars, batchSize, numAdders, onBatch, events,
                   lock, batchStop, lastFlushAge, sleepLeft, nowAge, nextItem,
                   addPc, addItem, timerPc, appended, delivered, addedAtStop>>

\* stop(): with self._lock: self._flush(), which returns at once on an empty
\* buffer, and after clearing the buffer when there is no handler.
BatchStopFlush ==
    /\ bstopPc = "acquire"
    /\ lock = "none"
    /\ IF events # <<>> /\ onBatch
       THEN /\ lock' = "stop"
            /\ events' = <<>>
            /\ delivered' = Append(delivered, Batch(events, "stop"))
            /\ bstopPc' = "handler"
       ELSE /\ events' = <<>>
            /\ bstopPc' = "returned"
            /\ UNCHANGED <<lock, delivered>>
    /\ UNCHANGED <<nonBatcherVars, batchSize, numAdders, onBatch, batchStop,
                   lastFlushAge, sleepLeft, nowAge, nextItem, addPc, addItem,
                   timerPc, appended, addedAtStop>>

\* The handler called by stop() returns, and so does stop(); or it raises
\* and stop() raises.
BatchStopHandlerReturn ==
    /\ bstopPc = "handler"
    /\ lock' = "none"
    /\ \E ok \in BOOLEAN : bstopPc' = IF ok THEN "returned" ELSE "raised"
    /\ UNCHANGED <<nonBatcherVars, batchSize, numAdders, onBatch, events,
                   batchStop, lastFlushAge, sleepLeft, nowAge, nextItem,
                   addPc, addItem, timerPc, appended, delivered, addedAtStop>>

\* set_on_batch(callback), the callback being a callable (h) or None: with
\* self._lock: self._on_batch = callback
SetOnBatch(h) ==
    /\ lock = "none"
    /\ onBatch' = h
    /\ UNCHANGED <<nonBatcherVars, batchSize, numAdders, events, lock,
                   batchStop, lastFlushAge, sleepLeft, nowAge, nextItem,
                   addPc, addItem, timerPc, bstopPc, appended, delivered,
                   addedAtStop>>

\* One tick of time passes.
Tick ==
    /\ \/ lastFlushAge < Interval
       \/ sleepLeft > 0
       \/ timerPc = "handler" /\ nowAge < Interval
    /\ lastFlushAge' = Min(Interval, lastFlushAge + 1)
    /\ sleepLeft' = IF sleepLeft > 0 THEN sleepLeft - 1 ELSE 0
    /\ nowAge' = IF timerPc = "handler" THEN Min(Interval, nowAge + 1) ELSE 0
    /\ UNCHANGED <<nonBatcherVars, batchSize, numAdders, onBatch, events,
                   lock, batchStop, nextItem, addPc, addItem, timerPc,
                   bstopPc, appended, delivered, addedAtStop>>

\* The steps of add_event, of the timer thread, of stop(), and time.
BatcherSteps ==
    \/ \E a \in Adders : AddBegin(a)
    \/ \E a \in Adders : AddAppend(a)
    \/ \E a \in Adders : AddCheck(a)
    \/ \E a \in Adders : AddHandlerReturn(a)
    \/ TimerLoop
    \/ TimerWake
    \/ TimerCheck
    \/ TimerHandlerReturn
    \/ BatchStopSet
    \/ BatchStopJoin
    \/ BatchStopFlush
    \/ BatchStopHandlerReturn
    \/ Tick

\* Every step of the batcher and of its users, set_on_batch(None) included.
BatcherNext ==
    \/ BatcherSteps
    \/ \E h \in BOOLEAN : SetOnBatch(h)

\* The steps that leave a handler configured: set_on_batch is called with
\* callables only.
BatcherNextHandled ==
    \/ BatcherSteps
    \/ SetOnBatch(TRUE)

\* A batcher of any batch size up to MaxBatch with up to MaxAdders adders.
InitBatcher ==
    /\ StreamInit
    /\ ResubInit
    /\ FallbackParked
    /\ OrchInit
    /\ OptParked
    /\ MgrInit
    /\ FcParked
    /\ \E b \in 1..MaxBatch : \E n \in Adders : BatcherInit(b, n)

\* Every use of the batcher, set_on_batch(None) included.
SpecBatcherAny == InitBatcher /\ [][BatcherNext]_vars

\* The uses in which a handler stays configured.
SpecBatcher == InitBatcher /\ [][BatcherNextHandled]_vars

\* The thread that holds the lock, the timer thread and the thread inside
\* stop() get to take the steps they can take, and time passes; no one is
\* obliged to call add_event or stop, and an adder may wait for the lock for
\* ever.
FairSpecBatcher ==
    /\ SpecBatcher
    /\ WF_batcherVars(\E a \in Adders : AddCheck(a) \/ AddHandlerReturn(a))
    /\ WF_batcherVars(TimerLoop \/ TimerWake \/ TimerCheck
                         \/ TimerHandlerReturn)
    /\ WF_batcherVars(BatchStopJoin \/ BatchStopFlush
                         \/ BatchStopHandlerReturn)
    /\ WF_batcherVars(Tick)

\* The events of the batches handed over so far, in order.
RECURSIVE Flat(_)
Flat(bs) == IF bs = <<>> THEN <<>> ELSE Head(bs).items \o Flat(Tail(bs))

\* A handler invocation is in progress.
InHandler ==
    \/ \E a \in Adders : addPc[a] = "handler"
    \/ timerPc = "handler"
    \/ bstopPc = "handler"

-----------------------------------------------------------------------------
(***************************************************************************)
(* EventBatcher: the properties.                                           *)
(***************************************************************************)

\* C12: size trigger: once batch_size events have been appended with no flush
\* in between, the adder that appended the last one hands exactly these
\* events, in insertion order, to the handler in one batch, once, and leaves
\* the buffer empty before its add_event returns; the buffer never holds
\* more.
C12_SizeTrigger ==
    [][/\ Len(events) <= batchSize
       /\ Len(events) = batchSize /\ events' # events =>
             /\ events' = <<>>
             /\ delivered' = Append(delivered, Batch(events, "add"))
       /\ \A a \in Adders :
             addPc[a] # "idle" /\ addPc'[a] = "idle" =>
                 Len(events') < batchSize]_vars

\* A batch of two events has been handed over by the add that filled it.
C12_Witness ==
    /\ batchSize = 2
    /\ \E i \in 1..Len(delivered) :
          delivered[i].by = "add" /\ Len(delivered[i].items) = 2
    /\ events = <<>>
    /\ \A a \in Adders : addPc[a] = "idle"

\* The number of times x occurs in the sequence s.
Count(s, x) == Cardinality({i \in 1..Len(s) : s[i] = x})

\* C13: conservation under concurrency: with several threads adding while
\* the timer runs, every event appended is in exactly one batch handed to
\* the handler or, once, in the buffer, and nothing else is; no event is
\* lost or duplicated.
C13_Conservation ==
    \A x \in Items :
        /\ Count(appended, x) <= 1
        /\ Count(Flat(delivered) \o events, x) = Count(appended, x)

\* With two adders the timer has handed over one batch and the add that
\* filled the buffer another, an add being in progress at the timer's flush.
C13_Witness ==
    /\ numAdders = 2
    /\ \E i, j \in 1..Len(delivered) :
          /\ delivered[i].by = "timer"
          /\ delivered[j].by = "add"
          /\ i < j
          /\ \E x \in Items : Count(delivered[j].items, x) = 1
                                /\ Count(delivered[i].items, x + 1) = 1

\* C14: buffer bound: whenever the lock is not held the buffer is shorter
\* than batch_size; it is never longer than batch_size, and it has that
\* length only while the adder that appended the last event holds the lock
\* and is about to flush.
C14_BufferBound ==
    /\ Len(events) <= batchSize
    /\ lock = "none" => Len(events) < batchSize
    /\ Len(events) = batchSize =>
          lock = "add" /\ \E a \in Adders : addPc[a] = "check"

\* The buffer is full, inside the critical section of an add, while another
\* adder waits for the lock.
C14_Witness ==
    /\ batchSize = 2
    /\ Len(events) = batchSize
    /\ \E a \in Adders : addPc[a] = "acquire"

\* C15 as stated: the handler is invoked outside the lock: while a handler
\* invocation is in progress the lock is free for an add from another thread.
C15_HandlerOutsideLock == InHandler => lock = "none"

\* C15: the handler is invoked inside the lock: while a handler invocation
\* is in progress the thread that flushed holds the lock, and no add from
\* another thread appends before the handler has finished.
C15_HandlerUnderLock ==
    [][/\ (\E a \in Adders : addPc[a] = "handler") => lock = "add"
       /\ timerPc = "handler" => lock = "timer"
       /\ bstopPc = "handler" => lock = "stop"
       /\ InHandler => appended' = appended]_vars

\* The handler runs for the batch flushed by an add while
\* another adder waits for the lock.
C15_Witness ==
    /\ \E a \in Adders : addPc[a] = "handler"
    /\ \E a \in Adders : addPc[a] = "acquire"

\* The timer thread has not ended.
TimerRunning == timerPc \notin {"done", "dead"}

\* C16: time trigger: the timer wakes up one interval after it went to
\* sleep, by then at least one interval after the last flush it recorded, and
\* at every wake-up it hands the whole buffer to the handler in one batch:
\* while the timer thread is running no event stays in the buffer across a
\* wake-up, and an event is handed over at the first wake-up after its add.
C16_TimeTrigger ==
    [][timerPc = "acquire" /\ timerPc' # "acquire" =>
          /\ TimerRunning
          /\ sleepLeft = 0
          /\ lastFlushAge >= Interval
          /\ events' = <<>>
          /\ events # <<>> =>
                delivered' = Append(delivered, Batch(events, "timer"))]_vars

\* The timer has handed over a batch shorter than batch_size.
C16_Witness ==
    /\ batchSize = 2
    /\ timerPc = "handler"
    /\ delivered # <<>>
    /\ delivered[Len(delivered)].by = "timer"
    /\ Len(delivered[Len(delivered)].items) = 1

\* C17: stop() terminates and loses no partial batch: once it has set the
\* stop event it comes to an end, by returning or by passing on an exception
\* of the handler; when it returns the timer thread has ended, the buffer is
\* empty and every event appended before stop() was called has been handed
\* to the handler exactly once.
C17_StopFlushes ==
    /\ [][bstopPc # "returned" /\ bstopPc' = "returned" =>
             /\ ~TimerRunning
             /\ events' = <<>>
             /\ \A x \in addedAtStop : Count(Flat(delivered'), x) = 1]_vars
    /\ (bstopPc = "join") ~> (bstopPc \in {"returned", "raised"})

\* stop() has returned after its final flush handed over a partial batch that
\* was in the buffer when stop() was called.
C17_Witness ==
    /\ bstopPc = "returned"
    /\ batchSize = 2
    /\ delivered # <<>>
    /\ delivered[Len(delivered)].by = "stop"
    /\ \E x \in addedAtStop : Count(delivered[Len(delivered)].items, x) = 1

\* C18: ordering: the batches handed over, one after the other and followed
\* by the buffer, are the events in the order they were appended, so events
\* keep their order within a batch and a batch is handed over before any
\* event of the next one is appended; with a single adding thread that order
\* is the order of the add_event calls.
C18_Ordering ==
    /\ Flat(delivered) \o events = appended
    /\ numAdders = 1 => appended = [i \in 1..Len(appended) |-> i]

\* A single adder: a batch of two events has been handed over and the third
\* event is in the buffer.
C18_Witness ==
    /\ numAdders = 1
    /\ Len(delivered) = 1
    /\ delivered[1].items = <<1, 2>>
    /\ events = <<3>>

\* C40: a handler that raises does not disable the batcher: whether the
\* handler called by the timer returns or raises, the timer thread goes on
\* with its loop, and an event that is in the buffer before stop() is
\* called is eventually handed over.
C40_SurvivesHandlerError ==
    /\ [][timerPc = "handler" /\ timerPc' # "handler" =>
             timerPc' = "loop"]_vars
    /\ (events # <<>> /\ ~batchStop) ~> (events = <<>>)

\* The state the code reaches instead: the handler has raised in the timer
\* thread, which has ended; the batch it was handed is gone from the buffer,
\* and an event added later stays in the buffer, short of batch_size, with
\* no stop() called.
C40_TimerDead ==
    /\ timerPc = "dead"
    /\ bstopPc = "idle"
    /\ batchSize = 2
    /\ Len(events) = 1
    /\ \A a \in Adders : addPc[a] = "idle"
    /\ delivered # <<>>
    /\ delivered[Len(delivered)].by = "timer"
    /\ \A x \in Items :
          Count(delivered[Len(delivered)].items, x) = 1 => Count(events, x) = 0

-----------------------------------------------------------------------------
(***************************************************************************)
(* FallbackHandler: the actions.                                           *)
(***************************************************************************)

\* What __init__ sets for good, and how the callers call.
fbConfig == <<maxRetries, hasHook, backoffFactor, withFallback>>

\* A successful attempt that returns without resetting the failure count.
FbSuccessNoReset(c) ==
    /\ fbPc[c] = "try"
    /\ retries[c] <= maxRetries
    /\ attempts' = [attempts EXCEPT ![c] = @ + 1]
    /\ fbPc' = [fbPc EXCEPT ![c] = "returned"]
    /\ UNCHANGED <<nonFallbackVars, fbConfig, hookCalls, failureCount,
                   circuitOpen, fbCalls, retries, delay, slept>>

\* Giving up once retries has reached max_retries: if retries >=
\* self._max_retries: raise
FbHookRaiseAtLimit(c) ==
    /\ fbPc[c] = "hook"
    /\ hookCalls' = [hookCalls EXCEPT ![c] = IF hasHook THEN @ + 1 ELSE @]
    /\ \E ok \in {TRUE} \cup {~hasHook} :
          fbPc' = [fbPc EXCEPT ![c] =
                      IF ~ok THEN "hookraised"
                      ELSE IF retries[c] >= maxRetries THEN "raised"
                      ELSE "sleep"]
    /\ UNCHANGED <<nonFallbackVars, fbConfig, failureCount,
                   circuitOpen, fbCalls, retries, delay, attempts, slept>>


\* A call that starts with a half-open probe: it closes the circuit.
FbCallProbe(c) ==
    /\ fbPc[c] = "idle"
    /\ fbCalls < MaxCalls
    /\ fbCalls' = fbCalls + 1
    /\ failureCount' = 0
    /\ circuitOpen' = FALSE
    /\ fbPc' = [fbPc EXCEPT ![c] = "try"]
    /\ UNCHANGED <<nonFallbackVars, fbConfig, hookCalls, retries, delay,
                   attempts,
                   slept>>

\* A failed attempt that opens the circuit only above max_retries: if
\* self._failure_count > self._max_retries
FbFailureAbove(c) ==
    /\ fbPc[c] = "try"
    /\ retries[c] <= maxRetries
    /\ attempts' = [attempts EXCEPT ![c] = @ + 1]
    /\ retries' = [retries EXCEPT ![c] = @ + 1]
    /\ failureCount' = failureCount + 1
    /\ circuitOpen' = (circuitOpen \/ failureCount + 1 > maxRetries)
    /\ fbPc' = [fbPc EXCEPT ![c] = "hook"]
    /\ UNCHANGED <<nonFallbackVars, fbConfig, hookCalls, fbCalls, delay,
                   slept>>

\* A call that short-circuits: with the circuit open it raises at once,
\* without an attempt of the operation.
FbCallShortCircuit(c) ==
    /\ fbPc[c] = "idle"
    /\ fbCalls < MaxCalls
    /\ fbCalls' = fbCalls + 1
    /\ fbPc' = [fbPc EXCEPT ![c] = IF circuitOpen THEN "raised" ELSE "try"]
    /\ UNCHANGED <<nonFallbackVars, fbConfig, hookCalls, failureCount,
                   circuitOpen,
                   retries, delay, attempts, slept>>

\* A sleep without backoff: time.sleep(delay) and no delay *= factor.
FbSleepConstant(c) ==
    /\ fbPc[c] = "sleep"
    /\ slept' = [slept EXCEPT ![c] = @ + delay[c]]
    /\ fbPc' = [fbPc EXCEPT ![c] = "try"]
    /\ UNCHANGED <<nonFallbackVars, fbConfig, hookCalls, failureCount,
                   circuitOpen, fbCalls, retries, delay, attempts>>

\* A failed attempt that opens the circuit only when the call is exhausted:
\* if retries > self._max_retries: self._circuit_open = True
FbFailureAtExhaustion(c) ==
    /\ fbPc[c] = "try"
    /\ retries[c] <= maxRetries
    /\ attempts' = [attempts EXCEPT ![c] = @ + 1]
    /\ retries' = [retries EXCEPT ![c] = @ + 1]
    /\ failureCount' = failureCount + 1
    /\ circuitOpen' = (circuitOpen \/ retries[c] + 1 > maxRetries)
    /\ fbPc' = [fbPc EXCEPT ![c] = "hook"]
    /\ UNCHANGED <<nonFallbackVars, fbConfig, hookCalls, fbCalls, delay,
                   slept>>

\* A hook that is skipped for the final failed attempt: if retries >
\* self._max_retries: raise, before the hook.
FbHookSkipFinal(c) ==
    /\ fbPc[c] = "hook"
    /\ hookCalls' = [hookCalls EXCEPT ![c] =
                        IF hasHook /\ retries[c] <= maxRetries
                          THEN @ + 1 ELSE @]
    /\ \E ok \in {TRUE} \cup {~hasHook} :
          fbPc' = [fbPc EXCEPT ![c] =
                      IF retries[c] > maxRetries THEN "raised"
                      ELSE IF ~ok THEN "hookraised"
                      ELSE "sleep"]
    /\ UNCHANGED <<nonFallbackVars, fbConfig, failureCount,
                   circuitOpen, fbCalls, retries, delay, attempts, slept>>
\* run_with_fallback(func) or run_with_fallback(func, fallback_value=v) is
\* called: retries = 0; delay = 1.0
FbCall(c) ==
    /\ fbPc[c] = "idle"
    /\ fbCalls < MaxCalls
    /\ fbCalls' = fbCalls + 1
    /\ fbPc' = [fbPc EXCEPT ![c] = "try"]
    /\ UNCHANGED <<nonFallbackVars, fbConfig, hookCalls, failureCount,
                   circuitOpen,
                   retries, delay, attempts, slept>>

\* while retries <= self._max_retries: result = func(*args, **kwargs)
\* returns; with self._lock: self._failure_count = 0;
\* self._circuit_open = False; return result
FbSuccess(c) ==
    /\ fbPc[c] = "try"
    /\ retries[c] <= maxRetries
    /\ attempts' = [attempts EXCEPT ![c] = @ + 1]
    /\ failureCount' = 0
    /\ circuitOpen' = FALSE
    /\ fbPc' = [fbPc EXCEPT ![c] = "returned"]
    /\ UNCHANGED <<nonFallbackVars, fbConfig, hookCalls, fbCalls, retries,
                   delay, slept>>

\* while retries <= self._max_retries: func(*args, **kwargs) raises an
\* exception derived from Exception; except Exception as e: retries += 1;
\* with self._lock: self._failure_count += 1;
\* if self._failure_count >= self._max_retries: self._circuit_open = True
FbFailure(c) ==
    /\ fbPc[c] = "try"
    /\ retries[c] <= maxRetries
    /\ attempts' = [attempts EXCEPT ![c] = @ + 1]
    /\ retries' = [retries EXCEPT ![c] = @ + 1]
    /\ failureCount' = failureCount + 1
    /\ circuitOpen' = (circuitOpen \/ failureCount + 1 >= maxRetries)
    /\ fbPc' = [fbPc EXCEPT ![c] = "hook"]
    /\ UNCHANGED <<nonFallbackVars, fbConfig, hookCalls, fbCalls, delay,
                   slept>>

\* while retries <= self._max_retries: func(*args, **kwargs) raises an
\* exception that is not derived from Exception (KeyboardInterrupt,
\* SystemExit, GeneratorExit): except Exception does not catch it, and it
\* leaves run_with_fallback at once.  Nothing is counted, no hook is called
\* and nothing is slept.
FbAbort(c) ==
    /\ fbPc[c] = "try"
    /\ retries[c] <= maxRetries
    /\ attempts' = [attempts EXCEPT ![c] = @ + 1]
    /\ fbPc' = [fbPc EXCEPT ![c] = "aborted"]
    /\ UNCHANGED <<nonFallbackVars, fbConfig, hookCalls, failureCount,
                   circuitOpen, fbCalls, retries, delay, slept>>

\* while retries <= self._max_retries: is false; the function ends without
\* a return statement and the call returns None.
FbLoopExit(c) ==
    /\ fbPc[c] = "try"
    /\ retries[c] > maxRetries
    /\ fbPc' = [fbPc EXCEPT ![c] = "returned"]
    /\ UNCHANGED <<nonFallbackVars, fbConfig, hookCalls, failureCount,
                   circuitOpen, fbCalls, retries, delay, attempts, slept>>

\* if self._on_fallback: self._on_fallback(e, args), which may raise (an
\* exception of any kind: the call stands inside the except block, and the
\* exception leaves run_with_fallback); if retries > self._max_retries:
\* raise
FbHook(c) ==
    /\ fbPc[c] = "hook"
    /\ hookCalls' = [hookCalls EXCEPT ![c] = IF hasHook THEN @ + 1 ELSE @]
    /\ \E ok \in {TRUE} \cup {~hasHook} :
          fbPc' = [fbPc EXCEPT ![c] =
                      IF ~ok THEN "hookraised"
                      ELSE IF retries[c] > maxRetries THEN "raised"
                      ELSE "sleep"]
    /\ UNCHANGED <<nonFallbackVars, fbConfig, failureCount,
                   circuitOpen, fbCalls, retries, delay, attempts, slept>>

\* time.sleep(delay); delay *= self._backoff_factor
FbSleep(c) ==
    /\ fbPc[c] = "sleep"
    /\ slept' = [slept EXCEPT ![c] = @ + delay[c]]
    /\ delay' = [delay EXCEPT ![c] = @ * backoffFactor]
    /\ fbPc' = [fbPc EXCEPT ![c] = "try"]
    /\ UNCHANGED <<nonFallbackVars, fbConfig, hookCalls, failureCount,
                   circuitOpen, fbCalls, retries, attempts>>

\* The caller has the result or the exception of its call; the locals of
\* the call are gone.
FbFinish(c) ==
    /\ fbPc[c] \in {"returned", "raised", "aborted", "hookraised"}
    /\ fbPc' = [fbPc EXCEPT ![c] = "idle"]
    /\ retries' = [retries EXCEPT ![c] = 0]
    /\ delay' = [delay EXCEPT ![c] = FirstDelay]
    /\ attempts' = [attempts EXCEPT ![c] = 0]
    /\ slept' = [slept EXCEPT ![c] = 0]
    /\ hookCalls' = [hookCalls EXCEPT ![c] = 0]
    /\ UNCHANGED <<nonFallbackVars, fbConfig, failureCount, circuitOpen,
                   fbCalls>>

\* reset_circuit()
FbResetCircuit ==
    /\ failureCount' = 0
    /\ circuitOpen' = FALSE
    /\ UNCHANGED <<nonFallbackVars, fbConfig, hookCalls, fbCalls, fbPc,
                   retries, delay, attempts, slept>>

\* is_circuit_open()
IsCircuitOpen == circuitOpen

FallbackNext ==
    \/ \E c \in Callers : FbCall(c)
    \/ \E c \in Callers : FbSuccess(c)
    \/ \E c \in Callers : FbFailure(c)
    \/ \E c \in Callers : FbAbort(c)
    \/ \E c \in Callers : FbLoopExit(c)
    \/ \E c \in Callers : FbHook(c)
    \/ \E c \in Callers : FbSleep(c)
    \/ \E c \in Callers : FbFinish(c)
    \/ FbResetCircuit

\* A handler with any max_retries from -1 to MaxRetryLimit and any
\* backoff_factor of Factors, with or without hook, whose callers pass
\* fallback_value = v (kw) or call run_with_fallback(func).
FallbackStart(kw) ==
    /\ StreamInit
    /\ ResubInit
    /\ BatcherParked
    /\ OrchInit
    /\ OptParked
    /\ MgrInit
    /\ FcParked
    /\ withFallback = kw
    /\ \E r \in -1..MaxRetryLimit : \E b \in Factors : \E h \in BOOLEAN :
          FallbackInit(r, b, h)

\* The callers call run_with_fallback(func).
InitFallback == FallbackStart(FALSE)

SpecFallback == InitFallback /\ [][FallbackNext]_vars

\* The callers call run_with_fallback(func, fallback_value=v), as the tests
\* of the repository do.
InitFallbackValue == FallbackStart(TRUE)

SpecFallbackValue == InitFallbackValue /\ [][FallbackNext]_vars

-----------------------------------------------------------------------------
(***************************************************************************)
(* FallbackHandler: the properties.                                        *)
(***************************************************************************)

\* The call of c has ended with an exception: that of the operation,
\* re-raised after the retries or never caught, or that of the hook.
FbEndedRaising(c) == fbPc[c] \in {"raised", "aborted", "hookraised"}

\* C19 as stated: an operation that has failed fewer than max_retries times
\* is attempted again, so that its next, successful attempt is returned: no
\* call ends with an exception after fewer than max_retries failed attempts
\* (every attempt of a call that ends with an exception has failed).
C19_RetriedUntilSuccess ==
    \A c \in Callers : FbEndedRaising(c) => attempts[c] >= maxRetries

\* C19 amended: recovery from exceptions derived from Exception.  A call
\* re-raises the exception of the operation only after more than max_retries
\* such failures; after k <= max_retries of them the next attempt is made,
\* and when it succeeds the call returns (it returns in no other way), after
\* k + 1 attempts, with the failure count reset to 0 and the circuit closed.
\* A call ends before that only in an attempt that raises an exception not
\* derived from Exception, which leaves the failure count, the circuit and
\* retries as they are, or in a configured hook that raises.
C19_Recovery ==
    [][\A c \in Callers :
          /\ fbPc[c] = "raised" => retries[c] > maxRetries
          /\ fbPc'[c] = "returned" /\ fbPc[c] # "returned"
                /\ retries[c] <= maxRetries =>
                /\ fbPc[c] = "try"
                /\ attempts'[c] = retries[c] + 1
                /\ failureCount' = 0
                /\ ~IsCircuitOpen'
          /\ fbPc'[c] = "aborted" /\ fbPc[c] # "aborted" =>
                /\ fbPc[c] = "try"
                /\ attempts'[c] = attempts[c] + 1
                /\ retries'[c] = retries[c]
                /\ failureCount' = failureCount
                /\ circuitOpen' = circuitOpen
          /\ fbPc'[c] = "hookraised" /\ fbPc[c] # "hookraised" =>
                /\ fbPc[c] = "hook"
                /\ hasHook]_vars

\* A call has returned after one failed attempt, with max_retries = 2.
C19_Witness ==
    \E c \in Callers :
        /\ fbPc[c] = "returned"
        /\ maxRetries = 2
        /\ retries[c] = 1
        /\ attempts[c] = 2
        /\ failureCount = 0
        /\ ~IsCircuitOpen

\* C20 as stated: a call that raises the exception of the operation has
\* invoked the operation exactly max_retries times (for max_retries >= 1).
C20_ExactlyMaxRetries ==
    \A c \in Callers :
        maxRetries >= 1 /\ fbPc[c] = "raised" => attempts[c] = maxRetries

\* C20 amended: exhaustion.  A call whose operation fails at every attempt
\* with an exception derived from Exception, and whose hook (if any) does
\* not raise, does not return; it raises the exception of the operation
\* after exactly max_retries + 1 attempts, all failed, and the circuit is
\* open then unless another thread has reset the failure count since the
\* call started.  A call ended by an exception of the operation that is not
\* derived from Exception, or by an exception of the hook, has ended in the
\* attempt in which that exception was raised, after max_retries + 1
\* attempts at most.
C20_RaisesAfterRetries ==
    \A c \in Callers :
        /\ retries[c] <= maxRetries + 1
        /\ maxRetries >= 0 /\ fbPc[c] = "returned" =>
              attempts[c] = retries[c] + 1
        /\ fbPc[c] = "raised" =>
              /\ attempts[c] = maxRetries + 1
              /\ retries[c] = attempts[c]
              /\ IsCircuitOpen \/ failureCount < attempts[c]
        /\ fbPc[c] = "aborted" =>
              /\ attempts[c] = retries[c] + 1
              /\ attempts[c] <= maxRetries + 1
        /\ fbPc[c] = "hookraised" =>
              /\ hasHook
              /\ attempts[c] = retries[c]
              /\ attempts[c] >= 1
              /\ attempts[c] <= maxRetries + 1

\* With max_retries = 2 a call has raised after three failed attempts and
\* the circuit is open.
C20_Witness ==
    \E c \in Callers :
        /\ fbPc[c] = "raised"
        /\ maxRetries = 2
        /\ attempts[c] = 3
        /\ failureCount = 3
        /\ IsCircuitOpen

\* A step of reset_circuit(): no call moves, the count is 0 afterwards.
ResetStep == fbPc' = fbPc /\ failureCount' = 0 /\ ~circuitOpen'

\* A step in which an attempt of the operation succeeds.
SuccessStep ==
    \E c \in Callers :
        /\ fbPc[c] = "try"
        /\ fbPc'[c] = "returned"
        /\ attempts'[c] = attempts[c] + 1

\* A step in which an attempt of the operation fails.
FailureStep ==
    \E c \in Callers :
        /\ fbPc[c] = "try"
        /\ fbPc'[c] = "hook"
        /\ attempts'[c] = attempts[c] + 1

\* C21 as stated: an open circuit is closed by reset_circuit() only; no
\* run_with_fallback call, whatever its outcome, closes it.
C21_OnlyResetCloses ==
    [][circuitOpen /\ ~circuitOpen' => ResetStep]_vars

\* C21 amended: an open circuit is closed by reset_circuit() or by a
\* successful attempt of the operation in some run_with_fallback call, and
\* by nothing else (no call start, failed attempt, hook, sleep or end of a
\* call closes it); both leave the failure count at 0.
C21_ResetOrSuccessCloses ==
    [][circuitOpen /\ ~circuitOpen' =>
          /\ ResetStep \/ SuccessStep
          /\ failureCount' = 0]_vars

\* With max_retries = 1 a call has returned after one failed attempt, which
\* had opened the circuit, and the circuit is closed.
C21_Witness ==
    \E c \in Callers :
        /\ maxRetries = 1
        /\ fbPc[c] = "returned"
        /\ attempts[c] = 2
        /\ retries[c] = 1
        /\ slept[c] = FirstDelay
        /\ ~IsCircuitOpen
        /\ failureCount = 0

\* C22: for max_retries >= 1 the circuit is open exactly when failure_count
\* >= max_retries; failure_count is 0 after a successful attempt and after
\* reset_circuit(), and it changes in no other way than by growing by one in
\* a failed attempt.
C22_CircuitInvariant ==
    /\ [](maxRetries >= 1 =>
             (IsCircuitOpen <=> failureCount >= maxRetries))
    /\ [][/\ SuccessStep => failureCount' = 0
          /\ FailureStep => failureCount' = failureCount + 1
          /\ failureCount' # failureCount =>
                \/ failureCount' = 0 /\ (SuccessStep \/ ResetStep)
                \/ failureCount' = failureCount + 1 /\ FailureStep]_vars

\* With max_retries = 2 two calls have failed once each and the circuit is
\* open with a count of exactly 2.
C22_Witness ==
    /\ maxRetries = 2
    /\ \A c \in 1..2 : fbPc[c] = "hook" /\ attempts[c] = 1
    /\ failureCount = 2
    /\ IsCircuitOpen

\* C23: no short circuit.  With the circuit open a call starts at the first
\* attempt with retries 0 and the first delay, every pass of the loop
\* attempts the operation, an attempt ends as with a closed circuit (it
\* returns, it fails and the hook follows, or its exception is none of
\* Exception and ends the call), and the call gives up or sleeps by the same
\* test on retries and with the same delays as with a closed circuit.
C23_NoShortCircuit ==
    [][\A c \in Callers : circuitOpen =>
          /\ fbPc[c] = "idle" /\ fbPc'[c] # "idle" =>
                /\ fbPc'[c] = "try"
                /\ retries'[c] = 0
                /\ delay'[c] = FirstDelay
                /\ attempts'[c] = 0
          /\ fbPc[c] = "try" /\ fbPc'[c] # "try" /\ retries[c] <= maxRetries =>
                /\ attempts'[c] = attempts[c] + 1
                /\ fbPc'[c] \in {"returned", "hook", "aborted"}
          /\ fbPc[c] = "hook" /\ fbPc'[c] = "raised" => retries[c] > maxRetries
          /\ fbPc[c] = "hook" /\ fbPc'[c] = "sleep" => retries[c] <= maxRetries
          /\ fbPc[c] = "sleep" /\ fbPc'[c] # "sleep" =>
                /\ fbPc'[c] = "try"
                /\ slept'[c] = slept[c] + delay[c]
                /\ delay'[c] = delay[c] * backoffFactor]_vars

\* A call that started when the circuit was open (the count was already
\* above max_retries) has made its first attempt.
C23_Witness ==
    \E c \in Callers :
        /\ maxRetries >= 1
        /\ IsCircuitOpen
        /\ fbPc[c] = "hook"
        /\ attempts[c] = 1
        /\ failureCount > maxRetries + 1

\* C24: a call that has ended has attempted the operation at least once,
\* and a call that has returned has returned from a successful attempt, the
\* one after its failed ones.
C24_OutcomeAfterAttempt ==
    \A c \in Callers :
        /\ fbPc[c] \in {"returned", "raised", "aborted", "hookraised"} =>
              attempts[c] >= 1
        /\ fbPc[c] = "returned" => attempts[c] = retries[c] + 1

RECURSIVE Pow(_, _)
Pow(b, n) == IF n = 0 THEN 1 ELSE b * Pow(b, n - 1)

\* The total of the first n sleeps with factor b: 1 + b + ... + b^(n-1).
RECURSIVE SleepTotal(_, _)
SleepTotal(b, n) ==
    IF n = 0 THEN 0 ELSE SleepTotal(b, n - 1) + Pow(b, n - 1)

\* C25 as stated: with max_retries = 3 and backoff_factor = 2 a call whose
\* operation fails every time has slept 1, 2 and 4, 7 in total, when it
\* ends with an exception.
C25_SevenBeforeRaise ==
    \A c \in Callers :
        maxRetries = 3 /\ backoffFactor = 2 /\ FbEndedRaising(c) =>
            slept[c] = 1 + 2 + 4

\* C25 amended: the sleep before the i-th retry lasts backoff_factor^(i-1),
\* the first one FirstDelay = 1, for every backoff_factor; a call that has
\* failed i times with an exception derived from Exception and is not yet
\* asleep has slept i - 1 times, and no sleep follows the final failed
\* attempt, whichever way the call ends; with max_retries = 3 and
\* backoff_factor = 2 a call that re-raises after its retries has slept
\* 1 + 2 + 4 = 7.  A call ended by an exception not derived from Exception,
\* or by an exception of the hook, has slept only before the retries it
\* made.
C25_BackoffSchedule ==
    /\ [](\A c \in Callers :
             /\ fbPc[c] \in {"hook", "sleep", "raised", "hookraised"} =>
                   /\ retries[c] >= 1
                   /\ delay[c] = Pow(backoffFactor, retries[c] - 1)
                   /\ slept[c] = SleepTotal(backoffFactor, retries[c] - 1)
             /\ fbPc[c] \in {"idle", "try", "returned", "aborted"} =>
                   /\ delay[c] = Pow(backoffFactor, retries[c])
                   /\ slept[c] = SleepTotal(backoffFactor, retries[c])
             /\ fbPc[c] = "raised" /\ maxRetries = 3 /\ backoffFactor = 2 =>
                   /\ retries[c] = 4
                   /\ slept[c] = 1 + 2 + 4)
    /\ [][\A c \in Callers :
             /\ slept'[c] # slept[c] /\ fbPc[c] # "returned"
                   /\ ~FbEndedRaising(c) =>
                   /\ fbPc[c] = "sleep"
                   /\ retries[c] <= maxRetries
                   /\ slept'[c] - slept[c] =
                         Pow(backoffFactor, retries[c] - 1)
             /\ FbEndedRaising(c)' /\ ~FbEndedRaising(c) =>
                   slept'[c] = slept[c]]_vars

\* With max_retries = 3 a call has raised after four failed attempts and
\* three sleeps of 7 in total; its next sleep would have been 8.
C25_Witness ==
    \E c \in Callers :
        /\ maxRetries = 3
        /\ backoffFactor = 2
        /\ fbPc[c] = "raised"
        /\ attempts[c] = 4
        /\ slept[c] = 7
        /\ delay[c] = 8

\* C26: a call that passes fallback_value = v does not raise the operation's
\* exception.
C26_FallbackValueReturned ==
    \A c \in Callers : withFallback => fbPc[c] # "raised"

\* C32 as stated: the circuit goes from closed to open only in a failed
\* attempt of a call whose retries then exceed max_retries, the call that
\* re-raises without another attempt.
C32_OpensAtExhaustion ==
    [][~circuitOpen /\ circuitOpen' =>
          \E c \in Callers :
              /\ fbPc[c] = "try"
              /\ fbPc'[c] = "hook"
              /\ retries'[c] > maxRetries]_vars

\* C32 amended: the circuit goes from closed to open only in a failed
\* attempt, under the lock: the one that brings the failure count of the
\* handler, which all calls share, to max_retries (for max_retries >= 1; to
\* 1 for max_retries <= 0).  The call of that attempt need not be exhausted.
C32_OpensAtThreshold ==
    [][~circuitOpen /\ circuitOpen' =>
          /\ FailureStep
          /\ failureCount' = failureCount + 1
          /\ failureCount' = IF maxRetries >= 1 THEN maxRetries ELSE 1]_vars

\* The only call made, with max_retries = 2, has failed twice, which opened
\* the circuit, and is asleep before its third attempt.
C32_Witness ==
    \E c \in Callers :
        /\ maxRetries = 2
        /\ fbCalls = 1
        /\ fbPc[c] = "sleep"
        /\ retries[c] = 2
        /\ attempts[c] = 2
        /\ failureCount = 2
        /\ IsCircuitOpen

\* C33 as stated: with a hook configured, on_fallback is invoked once for
\* every failed attempt: a call that has ended with an exception, all of
\* whose attempts have failed, has invoked it once per attempt.
C33_HookForEveryFailure ==
    \A c \in Callers :
        hasHook /\ FbEndedRaising(c) => hookCalls[c] = attempts[c]

\* C33 amended: with a hook configured, on_fallback has been invoked once
\* for every attempt of a call that failed with an exception derived from
\* Exception and is past the hook, the final attempt included, and never
\* more; it is invoked between the failed attempt, in which failure_count
\* was incremented, and the sleep or the raise, and a successful attempt
\* invokes nothing.  An attempt that fails with an exception not derived
\* from Exception ends the call with no invocation and no increment of
\* failure_count.  Without a hook nothing is invoked.
C33_HookOncePerFailure ==
    /\ [](\A c \in Callers :
             /\ ~hasHook => hookCalls[c] = 0
             /\ hasHook /\ fbPc[c] = "hook" => hookCalls[c] = retries[c] - 1
             /\ hasHook /\ fbPc[c] # "hook" => hookCalls[c] = retries[c]
             /\ fbPc[c] \in {"raised", "hookraised"} =>
                   retries[c] = attempts[c]
             /\ fbPc[c] = "aborted" => retries[c] = attempts[c] - 1
             /\ fbPc[c] = "returned" /\ maxRetries >= 0 =>
                   retries[c] = attempts[c] - 1)
    /\ [][\A c \in Callers :
             /\ hookCalls'[c] > hookCalls[c] =>
                   /\ hookCalls'[c] = hookCalls[c] + 1
                   /\ fbPc[c] = "hook"
                   /\ fbPc'[c] \in {"sleep", "raised", "hookraised"}
                   /\ failureCount' = failureCount
                   /\ slept'[c] = slept[c]
             /\ fbPc'[c] = "hook" /\ fbPc[c] # "hook" =>
                   /\ fbPc[c] = "try"
                   /\ failureCount' = failureCount + 1
                   /\ retries'[c] = retries[c] + 1
             /\ fbPc'[c] = "aborted" /\ fbPc[c] # "aborted" =>
                   /\ hookCalls'[c] = hookCalls[c]
                   /\ failureCount' = failureCount
             /\ fbPc'[c] = "returned" => hookCalls'[c] = hookCalls[c]]_vars

\* With a hook and max_retries = 1 a call has raised after two failed
\* attempts and two invocations of the hook.
C33_Witness ==
    \E c \in Callers :
        /\ hasHook
        /\ maxRetries = 1
        /\ fbPc[c] = "raised"
        /\ attempts[c] = 2
        /\ hookCalls[c] = 2

-----------------------------------------------------------------------------
(***************************************************************************)
(* PatternOrchestrator: the steps of monitor_patterns and orchestrate.     *)
(***************************************************************************)

\* A loop without dedup: every record taken is appended and written.
OrTakeNoDedup(r) ==
    /\ orPc = "loop"
    /\ orLeft > 0
    /\ orLeft' = orLeft - 1
    /\ orCur' = r
    /\ fed' = [fed EXCEPT ![r] = @ + 1]
    /\ patterns' = Append(patterns, r)
    /\ orPc' = "save"
    /\ UNCHANGED <<nonOrchVars, monitorCalls, newSaves, orchSaves,
                   failedWrites, kpiLogged, debits, optimizeRuns>>
\* monitor_patterns(pattern_stream) is called with a list of n records.
OrMonitor(n) ==
    /\ orPc = "idle"
    /\ monitorCalls < MaxMonitorCalls
    /\ monitorCalls' = monitorCalls + 1
    /\ orLeft' = n
    /\ orPc' = "loop"
    /\ UNCHANGED <<nonOrchVars, orCur, patterns, fed, newSaves, orchSaves,
                   failedWrites, kpiLogged, debits, optimizeRuns>>

\* is_new_pattern: pattern not in self.patterns
IsNewPattern(r) == \A i \in 1..Len(patterns) : patterns[i] # r

\* for pattern in pattern_stream: if self.is_new_pattern(pattern):
\* self.patterns.append(pattern), and on to the write; else on to
\* orchestrate.
OrTake(r) ==
    /\ orPc = "loop"
    /\ orLeft > 0
    /\ orLeft' = orLeft - 1
    /\ orCur' = r
    /\ fed' = [fed EXCEPT ![r] = @ + 1]
    /\ IF IsNewPattern(r)
         THEN patterns' = Append(patterns, r) /\ orPc' = "save"
         ELSE patterns' = patterns /\ orPc' = "orch"
    /\ UNCHANGED <<nonOrchVars, monitorCalls, newSaves, orchSaves,
                   failedWrites, kpiLogged, debits, optimizeRuns>>

\* await self.save_pattern_to_db(pattern): one DB write.  When it returns,
\* self.monitor.log_kpi(...) follows; when it raises, the exception leaves
\* monitor_patterns.
OrSave ==
    /\ orPc = "save"
    /\ newSaves' = [newSaves EXCEPT ![orCur] = @ + 1]
    /\ \E ok \in BOOLEAN :
          IF ok
            THEN /\ kpiLogged' = [kpiLogged EXCEPT ![orCur] = @ + 1]
                 /\ failedWrites' = failedWrites
                 /\ orPc' = "orch"
            ELSE /\ kpiLogged' = kpiLogged
                 /\ failedWrites' = [failedWrites EXCEPT ![orCur] = @ + 1]
                 /\ orPc' = "raised"
    /\ UNCHANGED <<nonOrchVars, orLeft, orCur, patterns, monitorCalls, fed,
                   orchSaves, debits, optimizeRuns>>

\* orchestrate: if pattern.get('anomaly', False): ... else nothing.
OrOrchestrate ==
    /\ orPc = "orch"
    /\ orPc' = IF orCur.anomaly THEN "orchsave" ELSE "loop"
    /\ UNCHANGED <<nonOrchVars, orLeft, orCur, patterns, monitorCalls, fed,
                   newSaves, orchSaves, failedWrites, kpiLogged, debits,
                   optimizeRuns>>

\* handler = FallbackHandler(); await handler.run_with_fallback(
\* self.save_pattern_to_db, pattern): run_with_fallback calls the async
\* function once, which returns a coroutine without running, and returns it;
\* the await then runs the one DB write outside the handler.  When it
\* returns, spend_tokens(campaign_id, amount=1.0) follows; when it raises,
\* the exception leaves orchestrate and monitor_patterns.
OrOrchSave ==
    /\ orPc = "orchsave"
    /\ orchSaves' = [orchSaves EXCEPT ![orCur] = @ + 1]
    /\ \E ok \in BOOLEAN :
          IF ok
            THEN /\ debits' = [debits EXCEPT ![orCur] = @ + 1]
                 /\ failedWrites' = failedWrites
                 /\ orPc' = "loop"
            ELSE /\ debits' = debits
                 /\ failedWrites' = [failedWrites EXCEPT ![orCur] = @ + 1]
                 /\ orPc' = "raised"
    /\ UNCHANGED <<nonOrchVars, orLeft, orCur, patterns, monitorCalls, fed,
                   newSaves, kpiLogged, optimizeRuns>>

\* The stream is exhausted: self.optimizer.optimize(...), and the call
\* returns.
OrOptimize ==
    /\ orPc = "loop"
    /\ orLeft = 0
    /\ optimizeRuns' = optimizeRuns + 1
    /\ orPc' = "done"
    /\ UNCHANGED <<nonOrchVars, orLeft, orCur, patterns, monitorCalls, fed,
                   newSaves, orchSaves, failedWrites, kpiLogged, debits>>

\* The caller has the result or the exception of monitor_patterns; the rest
\* of a stream whose call raised is never taken.
OrFinish ==
    /\ orPc \in {"done", "raised"}
    /\ orPc' = "idle"
    /\ orLeft' = 0
    /\ orCur' = NoRecord
    /\ UNCHANGED <<nonOrchVars, patterns, monitorCalls, fed, newSaves,
                   orchSaves, failedWrites, kpiLogged, debits, optimizeRuns>>

OrchNext ==
    \/ \E n \in 0..MaxStream : OrMonitor(n)
    \/ \E r \in Records : OrTake(r)
    \/ OrSave
    \/ OrOrchestrate
    \/ OrOrchSave
    \/ OrOptimize
    \/ OrFinish

InitOrch ==
    /\ StreamInit
    /\ ResubInit
    /\ BatcherParked
    /\ FallbackParked
    /\ OrchInit
    /\ OptParked
    /\ MgrInit
    /\ FcParked

SpecOrch == InitOrch /\ [][OrchNext]_vars

-----------------------------------------------------------------------------
(***************************************************************************)
(* PatternOrchestrator: the properties.                                    *)
(***************************************************************************)

\* No record is being processed.
OrQuiet == orPc \in {"idle", "loop", "done"}

\* max_retries of a FallbackHandler() constructed without arguments.
DefaultMaxRetries == 3

\* C27 as stated: a record fed twice or more, anomalous or not, has had
\* exactly one persistence call and exactly one KPI update.
C27_OnePersistenceCall ==
    \A r \in Records :
        OrQuiet /\ fed[r] >= 2 =>
            /\ newSaves[r] + orchSaves[r] = 1
            /\ kpiLogged[r] = 1

\* No record is between its being taken by the loop and the end of its
\* pass: the loop is about to take a record, or the call has ended.
OrSettled == orPc \in {"idle", "loop", "done", "raised"}

\* C27 amended: however often a record is taken by the loop of
\* monitor_patterns, it is written once as a new record, the first time it
\* is taken, and its KPI is logged at most once: in the step in which that
\* write returns, and not at all when that write raises.  orchestrate writes
\* nothing for a record that is not anomalous and writes an anomalous record
\* once more each time the record reaches it, which is each time the record
\* is taken but the one time at which its write as a new record raised.
C27_DedupIdempotent ==
    /\ [](\A r \in Records :
            /\ newSaves[r] <= 1
            /\ kpiLogged[r] <= newSaves[r]
            /\ ~r.anomaly => orchSaves[r] = 0
            /\ OrSettled /\ fed[r] >= 1 => newSaves[r] = 1
            /\ OrSettled /\ r.anomaly =>
                  orchSaves[r] = fed[r] - (newSaves[r] - kpiLogged[r]))
    /\ [][\A r \in Records :
            kpiLogged'[r] # kpiLogged[r] =>
                /\ orPc = "save"
                /\ orCur = r
                /\ orPc' = "orch"
                /\ newSaves'[r] = 1
                /\ failedWrites' = failedWrites
                /\ kpiLogged'[r] = 1]_vars
    /\ [][orPc = "save" /\ orPc' # "save" =>
            IF failedWrites' = failedWrites
              THEN orPc' = "orch" /\ kpiLogged'[orCur] = 1
              ELSE orPc' = "raised" /\ kpiLogged'[orCur] = 0]_vars

\* An anomalous record has been fed twice, in two calls, without a failed
\* write: one write as a new record, one KPI update, two writes of
\* orchestrate.
C27_Witness ==
    \E r \in Records :
        /\ r.anomaly
        /\ orPc = "done"
        /\ monitorCalls = 2
        /\ fed[r] = 2
        /\ failedWrites[r] = 0
        /\ newSaves[r] = 1
        /\ kpiLogged[r] = 1
        /\ orchSaves[r] = 2

\* C28: the write of a new record is retried: monitor_patterns surfaces its
\* failure only when writes of the record have failed max_retries times or
\* more.
C28_NewRecordWriteRetried ==
    [][orPc = "save" /\ orPc' = "raised" =>
          failedWrites'[orCur] >= DefaultMaxRetries]_vars

\* C29: a call of monitor_patterns that has ended, with a surfaced failure
\* or without, has taken every record of its stream and has run the
\* optimization pass.
C29_FailureHaltsRecordOnly ==
    orPc \in {"done", "raised"} =>
        /\ orLeft = 0
        /\ optimizeRuns = monitorCalls

\* C37: orchestrate runs for every record taken: for a record that is not
\* anomalous it writes nothing and debits nothing; for each occurrence of an
\* anomalous record it makes one more write, followed by one debit request
\* of 1 token, and the write is retried: its failure is surfaced only when
\* writes of the record have failed max_retries times or more.
C37_OrchestrateRetriesWrite ==
    [][/\ orPc = "orch" /\ orPc' # "orch" =>
            /\ orPc' = IF orCur.anomaly THEN "orchsave" ELSE "loop"
            /\ orchSaves' = orchSaves
            /\ debits' = debits
       /\ orPc = "orchsave" /\ orPc' = "loop" =>
            /\ orchSaves'[orCur] = orchSaves[orCur] + 1
            /\ debits'[orCur] = debits[orCur] + 1
       /\ orPc = "orchsave" /\ orPc' = "raised" =>
            failedWrites'[orCur] >= DefaultMaxRetries]_vars

\* The state the code reaches instead: the one write of orchestrate has
\* raised, nothing was retried, no debit was requested and the call has
\* ended with the exception.
C37_SurfacedAtFirstFailure ==
    \E r \in Records :
        /\ r.anomaly
        /\ orPc = "raised"
        /\ orchSaves[r] = 1
        /\ failedWrites[r] = 1
        /\ debits[r] = 0

\* The records of self.patterns.
Known == {patterns[i] : i \in 1..Len(patterns)}

\* C39: every record of the dedup list has been written successfully at
\* least once (the write of a record just appended being in progress): a
\* record whose write failed is not left in the list.
C39_KnownIsPersisted ==
    \A r \in Known :
        \/ newSaves[r] + orchSaves[r] > failedWrites[r]
        \/ orPc = "save" /\ orCur = r

\* The state the code reaches instead: the only write of a record has
\* failed, the record is in the list, and it is fed again and taken as
\* already known.
C39_KnownNeverWritten ==
    \E r \in Known :
        /\ ~r.anomaly
        /\ fed[r] = 2
        /\ newSaves[r] = 1
        /\ failedWrites[r] = 1
        /\ orPc = "loop"

-----------------------------------------------------------------------------
(***************************************************************************)
(* Optimizer.optimize                                                      *)
(***************************************************************************)

\* campaign.get("actions") or campaign.get("variants") or []
ActionsOf(campaign) ==
    IF campaign.actions # <<>> THEN campaign.actions ELSE campaign.variants

\* key(a) > key(b) for key = lambda a: scores.get(a, float('-inf'))
Higher(scores, a, b) ==
    /\ a \in DOMAIN scores
    /\ b \notin DOMAIN scores \/ scores[a] > scores[b]

\* max that keeps the last of the actions with the largest key.
BestActionLast(actions, scores) ==
    LET best[i \in 1..Len(actions)] ==
            IF i = 1 THEN actions[1]
            ELSE IF ~Higher(scores, best[i - 1], actions[i]) THEN actions[i]
            ELSE best[i - 1]
    IN  best[Len(actions)]
\* max(actions, key=...): the first action of the list with the largest key.
BestAction(actions, scores) ==
    LET best[i \in 1..Len(actions)] ==
            IF i = 1 THEN actions[1]
            ELSE IF Higher(scores, actions[i], best[i - 1]) THEN actions[i]
            ELSE best[i - 1]
    IN  best[Len(actions)]

\* optimize(campaigns, kpis): campaigns without actions are skipped.
Optimize(cs, ks) ==
    {<<c, BestAction(ActionsOf(cs[c]), ks[c])>> :
        c \in {d \in DOMAIN cs : ActionsOf(cs[d]) # <<>>}}

\* The call of optimize.
OptOptimize ==
    /\ ~optDone
    /\ optimized' = Optimize(campaigns, kpis)
    /\ optDone' = TRUE
    /\ UNCHANGED <<nonOptVars, campaigns, kpis>>

OptNext == OptOptimize

InitOpt ==
    /\ StreamInit
    /\ ResubInit
    /\ BatcherParked
    /\ FallbackParked
    /\ OrchInit
    /\ MgrInit
    /\ FcParked
    /\ \E cs \in [CampaignIds -> CampaignValues] :
       \E ks \in [CampaignIds -> ScoreMaps] : OptInit(cs, ks)

SpecOpt == InitOpt /\ [][OptNext]_vars

-----------------------------------------------------------------------------
(***************************************************************************)
(* Optimizer.optimize: the properties.                                     *)
(***************************************************************************)

\* The rank of an action: 0 when it has no score, above 0 when it has one
\* (the scores are not negative here).
Rank(scores, a) == IF a \in DOMAIN scores THEN scores[a] + 1 ELSE 0

\* C30: the result has no entry for a campaign without actions or variants
\* and one entry for every other campaign: an action of its list (its
\* actions, or its variants when it has no actions) that no action of the
\* list outranks and that outranks every action before it in the list, an
\* action without score ranking below every action with one.
C30_OptimizeSelectsBest ==
    optDone =>
        \A c \in CampaignIds :
            LET list == IF campaigns[c].actions # <<>>
                          THEN campaigns[c].actions
                          ELSE campaigns[c].variants
                chosen == {p[2] : p \in {q \in optimized : q[1] = c}}
            IN  IF list = <<>> THEN chosen = {}
                ELSE \E i \in 1..Len(list) :
                        /\ chosen = {list[i]}
                        /\ \A j \in 1..Len(list) :
                              Rank(kpis[c], list[j]) <= Rank(kpis[c], list[i])
                        /\ \A j \in 1..(i - 1) :
                              Rank(kpis[c], list[j]) < Rank(kpis[c], list[i])

\* optimize has returned: for c1, whose first action has no score and whose
\* second has score 0, the second; for c2, whose two actions tie, the first.
C30_Witness ==
    /\ optDone
    /\ campaigns["c1"].actions = <<"x", "y">>
    /\ DOMAIN kpis["c1"] = {"y"}
    /\ kpis["c1"]["y"] = 0
    /\ campaigns["c2"].actions = <<"y", "x">>
    /\ DOMAIN kpis["c2"] = {"x", "y"}
    /\ kpis["c2"]["x"] = 1
    /\ kpis["c2"]["y"] = 1
    /\ optimized = {<<"c1", "y">>, <<"c2", "y">>}

-----------------------------------------------------------------------------
(***************************************************************************)
(* CognitiveManager: register_campaign and spend_tokens.                   *)
(***************************************************************************)

\* self.campaigns[campaign_id] = value
DictSet(d, k, v) == [x \in DOMAIN d \cup {k} |-> IF x = k THEN v ELSE d[x]]

\* spend_tokens that tests the budget before adding the amount: if
\* c["tokens_used"] > c["budget"]: return False
MgrSpendLate(c, a) ==
    /\ IF c \notin DOMAIN mgrCampaigns
         THEN /\ mgrCampaigns' = mgrCampaigns
              /\ mgrLast' = [op |-> "spend", id |-> c, amount |-> a,
                             result |-> FALSE]
         ELSE IF mgrCampaigns[c].tokens_used > mgrCampaigns[c].budget
         THEN /\ mgrCampaigns' = mgrCampaigns
              /\ mgrLast' = [op |-> "spend", id |-> c, amount |-> a,
                             result |-> FALSE]
         ELSE /\ mgrCampaigns' =
                    [mgrCampaigns EXCEPT ![c].tokens_used = @ + a]
              /\ mgrLast' = [op |-> "spend", id |-> c, amount |-> a,
                             result |-> TRUE]
    /\ UNCHANGED nonMgrVars
\* register_campaign(c, goal, b): self.campaigns[c] = {"goal": goal,
\* "budget": b, "tokens_used": 0}, for a new id or a registered one.
MgrRegister(c, b) ==
    /\ mgrCampaigns' =
          DictSet(mgrCampaigns, c, [budget |-> b, tokens_used |-> 0])
    /\ mgrLast' = [op |-> "register", id |-> c, amount |-> b,
                   result |-> FALSE]
    /\ UNCHANGED nonMgrVars

\* spend_tokens(c, a): False for an unknown campaign and when tokens_used +
\* a > budget; else tokens_used += a and True.
MgrSpendTokens(c, a) ==
    /\ IF c \notin DOMAIN mgrCampaigns
         THEN /\ mgrCampaigns' = mgrCampaigns
              /\ mgrLast' = [op |-> "spend", id |-> c, amount |-> a,
                             result |-> FALSE]
         ELSE IF mgrCampaigns[c].tokens_used + a > mgrCampaigns[c].budget
         THEN /\ mgrCampaigns' = mgrCampaigns
              /\ mgrLast' = [op |-> "spend", id |-> c, amount |-> a,
                             result |-> FALSE]
         ELSE /\ mgrCampaigns' =
                    [mgrCampaigns EXCEPT ![c].tokens_used = @ + a]
              /\ mgrLast' = [op |-> "spend", id |-> c, amount |-> a,
                             result |-> TRUE]
    /\ UNCHANGED nonMgrVars

MgrNext ==
    \/ \E c \in MgrIds : \E b \in 0..MaxBudget : MgrRegister(c, b)
    \/ \E c \in MgrIds : \E a \in 0..MaxAmount : MgrSpendTokens(c, a)

InitMgr ==
    /\ StreamInit
    /\ ResubInit
    /\ BatcherParked
    /\ FallbackParked
    /\ OrchInit
    /\ OptParked
    /\ MgrInit
    /\ FcParked

SpecMgr == InitMgr /\ [][MgrNext]_vars

-----------------------------------------------------------------------------
(***************************************************************************)
(* CognitiveManager: the properties.                                       *)
(***************************************************************************)

\* C31: tokens_used of every campaign is between 0 and its budget; a call
\* of spend_tokens returns True and adds the amount when the campaign is
\* registered and tokens_used + amount <= budget, and returns False with
\* self.campaigns unchanged in every other case.
C31_TokenBudget ==
    /\ [](\A c \in DOMAIN mgrCampaigns :
             /\ 0 <= mgrCampaigns[c].tokens_used
             /\ mgrCampaigns[c].tokens_used <= mgrCampaigns[c].budget)
    /\ [][mgrLast'.op = "spend" =>
             LET c == mgrLast'.id
                 a == mgrLast'.amount
                 fits == /\ c \in DOMAIN mgrCampaigns
                         /\ mgrCampaigns[c].tokens_used + a
                               <= mgrCampaigns[c].budget
             IN  /\ mgrLast'.result = fits
                 /\ DOMAIN mgrCampaigns' = DOMAIN mgrCampaigns
                 /\ \A d \in DOMAIN mgrCampaigns :
                       /\ mgrCampaigns'[d].budget = mgrCampaigns[d].budget
                       /\ mgrCampaigns'[d].tokens_used =
                             mgrCampaigns[d].tokens_used
                                + (IF fits /\ d = c THEN a ELSE 0)]_vars

\* A campaign with budget 2 has spent 2 and the last call, spend_tokens of
\* 1 for it, was refused; the other campaign is not registered.
C31_Witness ==
    /\ DOMAIN mgrCampaigns = {"c1"}
    /\ mgrCampaigns["c1"] = [budget |-> 2, tokens_used |-> 2]
    /\ mgrLast = [op |-> "spend", id |-> "c1", amount |-> 1, result |-> FALSE]

-----------------------------------------------------------------------------
(***************************************************************************)
(* EventBatcher, the clock of its flushes: the steps.                      *)
(***************************************************************************)

\* add_event: with self._lock: self._events.append(event)
FcAddAppend ==
    /\ fcAddPc = "idle"
    /\ fcLock = "none"
    /\ fcLock' = "add"
    /\ fcLen' = fcLen + 1
    /\ fcAddPc' = "check"
    /\ UNCHANGED <<nonFcVars, fcBatch, fcOnBatch, fcStop, fcPc, fcStopPc,
                   fcSleep, fcNowAge, fcLastAge, fcAnyAge, fcLastBy>>

\* add_event: if len(self._events) >= self._batch_size: self._flush(), which
\* clears the buffer and, if self._on_batch, calls the handler; _flush does
\* not touch self._last_flush.  With no flush or no handler the lock is
\* released and add_event returns.
FcAddCheck ==
    /\ fcAddPc = "check"
    /\ IF fcLen >= fcBatch
       THEN /\ fcLen' = 0
            /\ fcAnyAge' = 0
            /\ fcLastBy' = "add"
            /\ IF fcOnBatch
               THEN fcAddPc' = "handler" /\ UNCHANGED fcLock
               ELSE fcAddPc' = "idle" /\ fcLock' = "none"
       ELSE /\ fcAddPc' = "idle"
            /\ fcLock' = "none"
            /\ UNCHANGED <<fcLen, fcAnyAge, fcLastBy>>
    /\ UNCHANGED <<nonFcVars, fcBatch, fcOnBatch, fcStop, fcPc, fcStopPc,
                   fcSleep, fcNowAge, fcLastAge>>

\* The handler called by add_event returns or raises; either way the with
\* block releases the lock and add_event is over.
FcAddHandlerReturn ==
    /\ fcAddPc = "handler"
    /\ fcLock' = "none"
    /\ fcAddPc' = "idle"
    /\ UNCHANGED <<nonFcVars, fcBatch, fcOnBatch, fcLen, fcStop, fcPc,
                   fcStopPc, fcSleep, fcNowAge, fcLastAge, fcAnyAge,
                   fcLastBy>>

\* _run: while not self._stop_event.is_set(): time.sleep(interval) begins.
FcTimerLoop ==
    /\ fcPc = "loop"
    /\ IF fcStop
       THEN fcPc' = "done" /\ UNCHANGED fcSleep
       ELSE fcPc' = "sleep" /\ fcSleep' = Interval
    /\ UNCHANGED <<nonFcVars, fcBatch, fcOnBatch, fcLen, fcLock, fcStop,
                   fcAddPc, fcStopPc, fcNowAge, fcLastAge, fcAnyAge,
                   fcLastBy>>

\* _run: time.sleep returns, not before the interval has passed.
FcTimerWake ==
    /\ fcPc = "sleep"
    /\ fcSleep = 0
    /\ fcPc' = "acquire"
    /\ UNCHANGED <<nonFcVars, fcBatch, fcOnBatch, fcLen, fcLock, fcStop,
                   fcAddPc, fcStopPc, fcSleep, fcNowAge, fcLastAge, fcAnyAge,
                   fcLastBy>>

\* _run: with self._lock: now = time.time(); if self._events and (now -
\* self._last_flush >= self._batch_interval): self._flush() begins;
\* otherwise the lock is released at once.  With no handler _flush clears
\* the buffer and returns, and self._last_flush = now follows in the same
\* locked block.
FcTimerCheck ==
    /\ fcPc = "acquire"
    /\ fcLock = "none"
    /\ IF fcLen > 0 /\ fcLastAge >= Interval
       THEN /\ fcLen' = 0
            /\ fcAnyAge' = 0
            /\ fcLastBy' = "timer"
            /\ IF fcOnBatch
               THEN /\ fcLock' = "timer"
                    /\ fcNowAge' = 0
                    /\ fcPc' = "handler"
                    /\ UNCHANGED fcLastAge
               ELSE /\ fcLastAge' = 0
                    /\ fcPc' = "loop"
                    /\ UNCHANGED <<fcLock, fcNowAge>>
       ELSE /\ fcPc' = "loop"
            /\ UNCHANGED <<fcLen, fcLock, fcNowAge, fcLastAge, fcAnyAge,
                           fcLastBy>>
    /\ UNCHANGED <<nonFcVars, fcBatch, fcOnBatch, fcStop, fcAddPc, fcStopPc,
                   fcSleep>>

\* The handler called by the timer returns, then self._last_flush = now, the
\* time taken before the handler was called; or it raises, which ends the
\* timer thread with _last_flush as it was.
FcTimerHandlerReturn ==
    /\ fcPc = "handler"
    /\ fcLock' = "none"
    /\ fcNowAge' = 0
    /\ \E ok \in BOOLEAN :
          IF ok
          THEN fcPc' = "loop" /\ fcLastAge' = fcNowAge
          ELSE fcPc' = "dead" /\ UNCHANGED fcLastAge
    /\ UNCHANGED <<nonFcVars, fcBatch, fcOnBatch, fcLen, fcStop, fcAddPc,
                   fcStopPc, fcSleep, fcAnyAge, fcLastBy>>

\* stop(): self._stop_event.set()
FcStopSet ==
    /\ fcStopPc = "idle"
    /\ fcStop' = TRUE
    /\ fcStopPc' = "join"
    /\ UNCHANGED <<nonFcVars, fcBatch, fcOnBatch, fcLen, fcLock, fcPc,
                   fcAddPc, fcSleep, fcNowAge, fcLastAge, fcAnyAge,
                   fcLastBy>>

\* stop(): self._thread.join() returns once the timer thread has ended.
FcStopJoin ==
    /\ fcStopPc = "join"
    /\ fcPc \in {"done", "dead"}
    /\ fcStopPc' = "acquire"
    /\ UNCHANGED <<nonFcVars, fcBatch, fcOnBatch, fcLen, fcLock, fcStop,
                   fcPc, fcAddPc, fcSleep, fcNowAge, fcLastAge, fcAnyAge,
                   fcLastBy>>

\* stop(): with self._lock: self._flush(), which returns at once on an empty
\* buffer, and after clearing the buffer when there is no handler.
FcStopFlush ==
    /\ fcStopPc = "acquire"
    /\ fcLock = "none"
    /\ IF fcLen > 0
       THEN /\ fcLen' = 0
            /\ fcAnyAge' = 0
            /\ fcLastBy' = "stop"
            /\ IF fcOnBatch
               THEN fcStopPc' = "handler" /\ fcLock' = "stop"
               ELSE fcStopPc' = "returned" /\ UNCHANGED fcLock
       ELSE /\ fcStopPc' = "returned"
            /\ UNCHANGED <<fcLen, fcLock, fcAnyAge, fcLastBy>>
    /\ UNCHANGED <<nonFcVars, fcBatch, fcOnBatch, fcStop, fcPc, fcAddPc,
                   fcSleep, fcNowAge, fcLastAge>>

\* The handler called by stop() returns, and so does stop(); or it raises
\* and stop() raises.
FcStopHandlerReturn ==
    /\ fcStopPc = "handler"
    /\ fcLock' = "none"
    /\ \E ok \in BOOLEAN : fcStopPc' = IF ok THEN "returned" ELSE "raised"
    /\ UNCHANGED <<nonFcVars, fcBatch, fcOnBatch, fcLen, fcStop, fcPc,
                   fcAddPc, fcSleep, fcNowAge, fcLastAge, fcAnyAge,
                   fcLastBy>>

\* set_on_batch(callback), the callback being a callable (h) or None: with
\* self._lock: self._on_batch = callback
FcSetOnBatch(h) ==
    /\ fcLock = "none"
    /\ fcOnBatch' = h
    /\ UNCHANGED <<nonFcVars, fcBatch, fcLen, fcLock, fcStop, fcPc, fcAddPc,
                   fcStopPc, fcSleep, fcNowAge, fcLastAge, fcAnyAge,
                   fcLastBy>>

\* One unit of time passes.
FcTick ==
    /\ \/ fcSleep > 0
       \/ fcLastAge < Interval
       \/ fcAnyAge < Interval
       \/ fcPc = "handler" /\ fcNowAge < Interval
    /\ fcSleep' = IF fcSleep > 0 THEN fcSleep - 1 ELSE 0
    /\ fcLastAge' = Min(Interval, fcLastAge + 1)
    /\ fcAnyAge' = Min(Interval, fcAnyAge + 1)
    /\ fcNowAge' = IF fcPc = "handler" THEN Min(Interval, fcNowAge + 1) ELSE 0
    /\ UNCHANGED <<nonFcVars, fcBatch, fcOnBatch, fcLen, fcLock, fcStop,
                   fcPc, fcAddPc, fcStopPc, fcLastBy>>

FcNext ==
    \/ FcAddAppend
    \/ FcAddCheck
    \/ FcAddHandlerReturn
    \/ FcTimerLoop
    \/ FcTimerWake
    \/ FcTimerCheck
    \/ FcTimerHandlerReturn
    \/ FcStopSet
    \/ FcStopJoin
    \/ FcStopFlush
    \/ FcStopHandlerReturn
    \/ \E h \in BOOLEAN : FcSetOnBatch(h)
    \/ FcTick

InitFc ==
    /\ StreamInit
    /\ ResubInit
    /\ BatcherParked
    /\ FallbackParked
    /\ OrchInit
    /\ OptParked
    /\ MgrInit
    /\ \E b \in 1..FcMaxBatch : FcInit(b)

SpecFc == InitFc /\ [][FcNext]_vars

-----------------------------------------------------------------------------
(***************************************************************************)
(* EventBatcher, the clock of its flushes: the properties.                 *)
(***************************************************************************)

\* C34: the timer thread flushes only a non-empty buffer and only when at
\* least the interval has passed since the last flush of any kind, by
\* add_event or by the timer.
C34_TimerAfterAnyFlush ==
    [][fcPc = "acquire" /\ fcPc' # "acquire" /\ fcLen' # fcLen =>
          /\ fcLen > 0
          /\ fcAnyAge >= Interval]_vars

=============================================================================
